---- MODULE Spec2Model ----
(***************************************************************************)
(* Model of the PROCAR band-structure analysis engine of matter-app        *)
(* (src/procar_parser.py): the Parser, BandData and its lazy per-k-point   *)
(* cache (sequential and with concurrent callers), the fatband grouper,    *)
(* the window statistics and the statistics part of the interactive UI.    *)
(* SpecFat, SpecWin, SpecUI, SpecLoad and SpecConc are the scenarios.      *)
(* SpecDrag is the DraggableHLine under mouse events; SpecSsh is the 2FA   *)
(* handshake of SSHThread (src/ssh_helpers.py) with the dialogs of         *)
(* HPCClient (src/hpc_client.py), SpecSshFair the same with fair threads.  *)
(*                                                                         *)
(* Energies and weights are floats in the program; the model uses small    *)
(* integers for them and exact rationals <<num, den>> for the overlap      *)
(* fractions.  Band, ion and k-point positions are 1-based sequence        *)
(* positions here; the 0-based list indices the program stores (band       *)
(* indices inside a fatband, bands_in_window) are kept 0-based.            *)
(***************************************************************************)
EXTENDS Integers, Sequences, FiniteSets, TLC

\* ------------------------------------------------------------------ bounds
MaxNB == 3          \* bands of the fatband inputs
MaxNK == 2          \* k-points of the fatband inputs
MaxE  == 3          \* fatband inputs draw energies from 0..MaxE
MaxDim   == 2       \* window inputs: bands, k-points, ions, orbitals each in 1..MaxDim
MaxCells == 4       \* window inputs: at most MaxCells weight entries
MaxWE    == 1       \* window inputs draw energies and window ends from 0..MaxWE
MaxW     == 1       \* window inputs draw weights from 0..MaxW
MaxFermi == 1       \* UI inputs draw the Fermi energy from 0..MaxFermi
MaxUiCells == 3     \* UI inputs: at most MaxUiCells weight entries

VARIABLES
    procar,             \* the parsed PROCAR dict handed to BandData
    fermi,              \* BandData.fermi
    energies,           \* BandData.energies, [band][kpoint]
    weights,            \* BandData.weights, [band][ion][orbital label]
    per_kpoint_weights, \* BandData._per_kpoint_weights, the lazy cache
    orb_index,          \* BandData._orb_index, orbital label -> 0-based column
    main_globals,       \* TRUE iff the module runs as __main__ (lines 1022-1023
                        \* bind the module globals energies and weights)
    call,               \* the last call of a BandData method and its outcome
    ui,                 \* interactive_procar_ui: the widgets and the last stats
    min_max_energies,   \* identify_fatbands: [emin, emax] per band
    fatbands,           \* identify_fatbands: the list being built
    fb_i,               \* identify_fatbands: next band (1-based position)
    fb_pc,              \* identify_fatbands: "idle", "loop" or "done"
    band_weights,       \* BandData.band_weights, [band]
    n_computed,         \* how many times the per-k-point arrays were built
    parser,             \* a Parser run: the files, its position, its locals,
                        \* what it printed, self.procar and self.fermi
    threads,            \* concurrent callers of compute_per_kpoint_weights
    hline,              \* a DraggableHLine and the mouse events it has handled
    ssh                 \* HPCClient's SSHThread workers and the GUI thread's 2FA dialogs

vars == <<procar, fermi, energies, weights, per_kpoint_weights, orb_index,
          main_globals, call, ui, min_max_energies, fatbands, fb_i, fb_pc,
          band_weights, n_computed, parser, threads, hline, ssh>>

\* ----------------------------------------------------------------- helpers
RECURSIVE SeqMin(_), SeqMax(_)
SeqMin(s) ==
    IF Len(s) = 1 THEN s[1]
    ELSE LET m == SeqMin(Tail(s)) IN IF s[1] < m THEN s[1] ELSE m

SeqMax(s) ==
    IF Len(s) = 1 THEN s[1]
    ELSE LET m == SeqMax(Tail(s)) IN IF s[1] > m THEN s[1] ELSE m

Min2(a, b) == IF a < b THEN a ELSE b

Max2(a, b) == IF a > b THEN a ELSE b

\* the sum of the values of a function with a finite domain
RECURSIVE SumFn(_)
SumFn(f) ==
    IF DOMAIN f = {} THEN 0
    ELSE LET x == CHOOSE y \in DOMAIN f : TRUE
         IN f[x] + SumFn([z \in DOMAIN f \ {x} |-> f[z]])

\* exact rationals <<numerator, denominator>>, denominator > 0, in lowest terms
RECURSIVE Gcd(_, _)
Gcd(a, b) == IF b = 0 THEN a ELSE Gcd(b, a % b)

Abs(a) == IF a < 0 THEN -a ELSE a

Rat(n, d) == LET g == Gcd(Abs(n), d) IN <<n \div g, d \div g>>

RAdd(x, y) == Rat(x[1] * y[2] + y[1] * x[2], x[2] * y[2])

RMul(x, y) == Rat(x[1] * y[1], x[2] * y[2])

RECURSIVE RSumSeq(_)
RSumSeq(s) == IF s = <<>> THEN <<0, 1>> ELSE RAdd(Head(s), RSumSeq(Tail(s)))

\* ------------------------------------------------------ the parsed PROCAR
\* The dict Parser.PROCAR builds, for nk k-points, nb bands, nion ions and
\* the orbital labels orbs; E[b][k] is the energy field and W[b][k][i][o]
\* the weight of orbital orbs[o] on ion i.  The "tot" column of an ion line
\* and the "tot" line of a band are the sums VASP writes.
ProcarDict(nk, nb, nion, orbs, E, W) ==
    [ header  |-> [kpoints |-> nk, bands |-> nb, ions |-> nion, orbitals |-> orbs],
      kpoints |-> [k \in 1..nk |->
          [ index |-> k,
            bands |-> [b \in 1..nb |->
                [ index  |-> b,
                  energy |-> E[b][k],
                  ions   |-> [i \in 1..nion |->
                      [ index |-> i,
                        w     |-> [o \in 1..Len(orbs) |-> W[b][k][i][o]],
                        total |-> SumFn([o \in 1..Len(orbs) |-> W[b][k][i][o]]) ]],
                  total  |->
                      [ w     |-> [o \in 1..Len(orbs) |->
                                      SumFn([i \in 1..nion |-> W[b][k][i][o]])],
                        total |-> SumFn([i \in 1..nion |->
                                      SumFn([o \in 1..Len(orbs) |-> W[b][k][i][o]])]) ] ]] ]] ]

\* ---------------------------------------------------------------- BandData
\* energies shifted to the Fermi level the Parser read
ComputeEnergies_FermiShifted(p) ==
    [b \in 1..p.header.bands |->
        [k \in 1..p.header.kpoints |->
            LET rec == CHOOSE r \in {p.kpoints[k].bands[j] : j \in 1..Len(p.kpoints[k].bands)} :
                           r.index = b
            IN rec.energy - parser.fermi]]

ComputeEnergies(p) ==
    [b \in 1..p.header.bands |->
        [k \in 1..p.header.kpoints |->
            LET rec == CHOOSE r \in {p.kpoints[k].bands[j] : j \in 1..Len(p.kpoints[k].bands)} :
                           r.index = b
            IN rec.energy]]

OrbIndex(p) ==
    [orb \in {p.header.orbitals[o] : o \in 1..Len(p.header.orbitals)} |->
        (CHOOSE o \in 1..Len(p.header.orbitals) : p.header.orbitals[o] = orb) - 1]

\* weights[b][i][orb]: the ion's orbital weight summed over all k-points
ComputeWeights(p) ==
    LET orbs == p.header.orbitals
        IonW(k, b, i, o) ==
            LET band == CHOOSE r \in {p.kpoints[k].bands[j] : j \in 1..Len(p.kpoints[k].bands)} :
                            r.index = b
                ion  == CHOOSE r \in {band.ions[j] : j \in 1..Len(band.ions)} : r.index = i
            IN ion.w[o]
    IN [b \in 1..p.header.bands |->
          [i \in 1..p.header.ions |->
             [orb \in {orbs[o] : o \in 1..Len(orbs)} |->
                LET o == CHOOSE x \in 1..Len(orbs) : orbs[x] = orb
                IN SumFn([k \in 1..Len(p.kpoints) |-> IonW(k, b, i, o)])]]]

\* band_weights without the accumulation over k-points
ComputeBandWeights_FirstKpoint(p) ==
    [b \in 1..p.header.bands |->
        LET band == CHOOSE r \in {p.kpoints[1].bands[j] : j \in 1..Len(p.kpoints[1].bands)} :
                        r.index = b
        IN band.total.total]

\* band_weights[b]: the "tot" entry of the band's total line summed over
\* all k-points (line 235)
ComputeBandWeights(p) ==
    [b \in 1..p.header.bands |->
        SumFn([k \in 1..Len(p.kpoints) |->
            LET band == CHOOSE r \in {p.kpoints[k].bands[j] : j \in 1..Len(p.kpoints[k].bands)} :
                            r.index = b
            IN band.total.total])]

NoCache == [filled |-> FALSE]

\* a cache test that never finds the cache
CacheHit_Never(cache) == FALSE

\* line 240: the cache test
CacheHit(cache) == cache.filled

\* the per-k-point arrays filled from the first k-point only
PerKpointArrays_FirstKpoint(p) ==
    LET orbs == p.header.orbitals
        IonW(k, b, i, o) ==
            LET band == CHOOSE r \in {p.kpoints[1].bands[j] : j \in 1..Len(p.kpoints[1].bands)} :
                            r.index = b
                ion  == CHOOSE r \in {band.ions[j] : j \in 1..Len(band.ions)} : r.index = i
            IN ion.w[o]
        per_k == [b \in 1..p.header.bands |-> [k \in 1..p.header.kpoints |->
                    [i \in 1..p.header.ions |-> [o \in 1..Len(orbs) |-> IonW(k, b, i, o)]]]]
    IN [ filled |-> TRUE,
         per_k  |-> per_k,
         per_k_totals |->
            [b \in 1..p.header.bands |-> [k \in 1..p.header.kpoints |->
                SumFn([i \in 1..p.header.ions |->
                    SumFn([o \in 1..Len(orbs) |-> per_k[b][k][i][o]])])]] ]

\* the body of compute_per_kpoint_weights below the cache test:
\* per_k[b][k][i][o] and per_k_totals[b][k]
PerKpointArrays(p) ==
    LET orbs == p.header.orbitals
        IonW(k, b, i, o) ==
            LET band == CHOOSE r \in {p.kpoints[k].bands[j] : j \in 1..Len(p.kpoints[k].bands)} :
                            r.index = b
                ion  == CHOOSE r \in {band.ions[j] : j \in 1..Len(band.ions)} : r.index = i
            IN ion.w[o]
        per_k == [b \in 1..p.header.bands |-> [k \in 1..p.header.kpoints |->
                    [i \in 1..p.header.ions |-> [o \in 1..Len(orbs) |-> IonW(k, b, i, o)]]]]
    IN [ filled |-> TRUE,
         per_k  |-> per_k,
         per_k_totals |->
            [b \in 1..p.header.bands |-> [k \in 1..p.header.kpoints |->
                SumFn([i \in 1..p.header.ions |->
                    SumFn([o \in 1..Len(orbs) |-> per_k[b][k][i][o]])])]] ]

\* compute_per_kpoint_weights: the cache after the call
ComputePerKpointWeights(p, cache) ==
    IF CacheHit(cache) THEN cache ELSE PerKpointArrays(p)

\* how many times one call of compute_per_kpoint_weights runs lines 243-262
Builds(cache) == IF CacheHit(cache) THEN 0 ELSE 1

\* the columns of the selected orbital labels the file has
OrbIdxSet(oidx, selected_orbs) == {oidx[o] : o \in selected_orbs \cap DOMAIN oidx}

\* a selection that takes every orbital of the selected ions
PerKpointSelected_AllOrbitals(cache, oidx, selected_ions, selected_orbs) ==
    LET per_k == cache.per_k
    IN [b \in 1..Len(per_k) |-> [k \in 1..Len(per_k[b]) |->
          SumFn([i \in (1..Len(per_k[b][k])) \cap selected_ions |->
              SumFn(per_k[b][k][i])])]]

\* a selection that adds every selected entry twice
PerKpointSelected_Twice(cache, oidx, selected_ions, selected_orbs) ==
    LET per_k == cache.per_k
    IN [b \in 1..Len(per_k) |-> [k \in 1..Len(per_k[b]) |->
          2 * SumFn([i \in (1..Len(per_k[b][k])) \cap selected_ions |->
              SumFn([oi \in OrbIdxSet(oidx, selected_orbs) |-> per_k[b][k][i][oi + 1]])])]]

\* compute_per_kpoint_selected_weights: selected_per_k[b][k]
PerKpointSelected(cache, oidx, selected_ions, selected_orbs) ==
    LET per_k == cache.per_k
    IN [b \in 1..Len(per_k) |-> [k \in 1..Len(per_k[b]) |->
          SumFn([i \in (1..Len(per_k[b][k])) \cap selected_ions |->
              SumFn([oi \in OrbIdxSet(oidx, selected_orbs) |-> per_k[b][k][i][oi + 1]])])]]

\* a selection with "or" in place of "and" at line 378
ComputeSelectedWeights_Or(w, selected_ions, selected_orbs) ==
    [b \in 1..Len(w) |->
        SumFn([i \in 1..Len(w[b]) |->
            SumFn([orb \in {x \in DOMAIN w[b][i] : i \in selected_ions \/ x \in selected_orbs} |->
                      w[b][i][orb]])])]

\* compute_selected_weights: selected_weights[b]
ComputeSelectedWeights(w, selected_ions, selected_orbs) ==
    [b \in 1..Len(w) |->
        SumFn([i \in (1..Len(w[b])) \cap selected_ions |->
            SumFn([orb \in DOMAIN w[b][i] \cap selected_orbs |-> w[b][i][orb]])])]

\* "for o, oi in self._orb_index" iterates the labels and unpacks each label
\* string into two names: a label of one or of three and more characters
\* raises ValueError, a label of two characters binds oi to a character and
\* the subscript per_k[b,k,i,oi] raises IndexError
UnpackError(label) ==
    IF label \in {"py", "pz", "px"} THEN "IndexError" ELSE "ValueError"

\* get_selected_weights_in_window_exact, after the cache is filled
SelectedWeightsInWindowExact(en, cache, oidx, orbs, ymin, ymax, selected_ions, selected_orbs) ==
    LET per_k == cache.per_k
        inwin == {bk \in {<<b, k>> : b \in 1..Len(per_k), k \in 1..Len(en[1])} :
                     ymin <= en[bk[1]][bk[2]] /\ en[bk[1]][bk[2]] <= ymax}
        nion  == Len(per_k[1][1])
        \* the else branch runs for an in-window pair and an ion not selected
        else_runs == inwin # {} /\ \E i \in 1..nion : i \notin selected_ions
        sel == SumFn([bk \in inwin |->
                  SumFn([i \in (1..nion) \cap selected_ions |->
                      SumFn([oi \in OrbIdxSet(oidx, selected_orbs) |->
                          per_k[bk[1]][bk[2]][i][oi + 1]])])])
    IN IF else_runs /\ Len(orbs) > 0
       THEN [status |-> UnpackError(orbs[1])]
       ELSE [status |-> "ok", type |-> "tuple",
             sel_weight_in_window |-> sel,
             \* only the else branch adds to weight_in_window
             weight_in_window |-> 0]

\* the band-in-window test of get_bands_in_window and update_plot
BandsIntersecting(en, ymin, ymax) ==
    {b \in 1..Len(en) : ~(SeqMax(en[b]) < ymin \/ SeqMin(en[b]) > ymax)}

\* ascending sequence of the members of a finite set of integers
RECURSIVE SortedSeq(_)
SortedSeq(S) ==
    IF S = {} THEN <<>>
    ELSE LET m == CHOOSE x \in S : \A y \in S : x <= y IN <<m>> \o SortedSeq(S \ {m})

\* get_bands_in_window: the loop body reads the global name energies, which
\* is bound (to this BandData's array) only when the module runs as __main__
GetBandsInWindow(en, globals, ymin, ymax) ==
    IF Len(en) > 0 /\ ~globals
    THEN [status |-> "NameError"]
    ELSE [status |-> "ok", type |-> "list",
          bands |-> SortedSeq({b - 1 : b \in BandsIntersecting(en, ymin, ymax)})]

\* a flat band: emax - emin < 1e-9, below the resolution of the integer energies
IsFlat(emin, emax) == emax - emin <= 0

\* the overlap fraction of lines 394-401 (and 704-711), as a rational
OverlapFrac(emin, emax, ymin, ymax) ==
    IF IsFlat(emin, emax)
    THEN IF emin >= ymin /\ emin <= ymax THEN <<1, 1>> ELSE <<0, 1>>
    ELSE LET overlap_low  == Max2(emin, ymin)
             overlap_high == Min2(emax, ymax)
             overlap_len  == Max2(0, overlap_high - overlap_low)
         IN Rat(overlap_len, emax - emin)

\* get_selected_weights_in_window_approx: the locals at the end of the loop
\* are kept in the outcome, the function itself ends without a return
SelectedWeightsInWindowApprox(en, w, globals, ymin, ymax, selected_ions, selected_orbs) ==
    LET biw == GetBandsInWindow(en, globals, ymin, ymax)
        selected_weights == ComputeSelectedWeights(w, selected_ions, selected_orbs)
        frac(b) == OverlapFrac(SeqMin(en[b]), SeqMax(en[b]), ymin, ymax)
    IN IF biw.status # "ok"
       THEN [status |-> biw.status]
       ELSE [status |-> "ok", type |-> "NoneType",
             overlap_frac |-> [p \in 1..Len(biw.bands) |-> frac(biw.bands[p] + 1)],
             sel_weight_in_window |->
                RSumSeq([p \in 1..Len(biw.bands) |->
                    RMul(<<selected_weights[biw.bands[p] + 1], 1>>, frac(biw.bands[p] + 1))])]

RDiv(x, y) == Rat(x[1] * y[2], x[2] * y[1])

\* update_plot and update_stats_and_text: the statistics of the side panel
\* for the weights, energies and fermi the UI was launched with, the checked
\* ions and orbitals and the two line positions.  band_total_weights[b] is
\* 1e-12 for a band without weight: weight_in_window keeps the coefficient
\* of 1e-12 apart (tiny) from the rest (whole).
UpdatePlot(w, en, f, s_ions, s_orbs, ytop, ybot) ==
    LET sel_band_weights ==
            [b \in 1..Len(w) |->
                SumFn([i \in (1..Len(w[b])) \cap s_ions |->
                    SumFn([orb \in DOMAIN w[b][i] \cap s_orbs |-> w[b][i][orb]])])]
        band_tot ==
            [b \in 1..Len(w) |->
                SumFn([i \in 1..Len(w[b]) |->
                    SumFn([orb \in DOMAIN w[b][i] |-> w[b][i][orb]])])]
        ymin == Min2(ytop, ybot)
        ymax == Max2(ytop, ybot)
        \* absolute energies converted to relative
        bands_in_window ==
            SortedSeq({b - 1 : b \in {c \in 1..Len(en) :
                ~((SeqMax(en[c]) - f) < ymin \/ (SeqMin(en[c]) - f) > ymax)}})
        frac(b) == OverlapFrac(SeqMin(en[b]), SeqMax(en[b]), ymin, ymax)
        fracs == [p \in 1..Len(bands_in_window) |-> frac(bands_in_window[p] + 1)]
        sel_weight_in_window ==
            RSumSeq([p \in 1..Len(bands_in_window) |->
                RMul(<<sel_band_weights[bands_in_window[p] + 1], 1>>, fracs[p])])
        total_selected_weight_allbands == SumFn(sel_band_weights)
    IN [ ymin |-> ymin, ymax |-> ymax,
         sel_band_weights |-> sel_band_weights,
         bands_in_window  |-> bands_in_window,
         overlap_frac     |-> fracs,
         sel_weight_in_window |-> sel_weight_in_window,
         weight_in_window |->
            [ whole |-> RSumSeq([p \in 1..Len(bands_in_window) |->
                          IF band_tot[bands_in_window[p] + 1] > 0
                          THEN RMul(<<band_tot[bands_in_window[p] + 1], 1>>, fracs[p])
                          ELSE <<0, 1>>]),
              tiny  |-> RSumSeq([p \in 1..Len(bands_in_window) |->
                          IF band_tot[bands_in_window[p] + 1] > 0
                          THEN <<0, 1>> ELSE fracs[p]]) ],
         pct_in_window |->
            IF total_selected_weight_allbands > 0
            THEN RMul(RDiv(sel_weight_in_window, <<total_selected_weight_allbands, 1>>),
                      <<100, 1>>)
            ELSE <<0, 1>> ]

\* ------------------------------------------------------- identify_fatbands
MinMaxEnergies(en) == [b \in 1..Len(en) |-> <<SeqMin(en[b]), SeqMax(en[b])>>]

\* as BandInFatband without the clause for a band that encloses the fatband
BandInFatband_NoContainment(fatband, band) ==
    \/ (fatband.Emin <= band[1] /\ band[1] <= fatband.Emax)
    \/ (fatband.Emin <= band[2] /\ band[2] <= fatband.Emax)

\* as BandInFatband, the upper end of the first clause taken strictly
BandInFatband_StrictUpper(fatband, band) ==
    \/ (fatband.Emin <= band[1] /\ band[1] < fatband.Emax)
    \/ (fatband.Emin <= band[2] /\ band[2] <= fatband.Emax)
    \/ (band[1] < fatband.Emin /\ band[2] > fatband.Emax)

\* the three-clause test "any part of band IN fatband"
BandInFatband(fatband, band) ==
    \/ (fatband.Emin <= band[1] /\ band[1] <= fatband.Emax)
    \/ (fatband.Emin <= band[2] /\ band[2] <= fatband.Emax)
    \/ (band[1] < fatband.Emin /\ band[2] > fatband.Emax)

\* position of the first fatband the band is in, 0 when there is none
FirstMatch(fbs, band) ==
    LET hits == {f \in 1..Len(fbs) : BandInFatband(fbs[f], band)}
    IN IF hits = {} THEN 0 ELSE CHOOSE f \in hits : \A g \in hits : f <= g

\* as MergeBand without the break: the band joins every fatband it is in
MergeBand_NoBreak(fbs, i, band) ==
    IF FirstMatch(fbs, band) # 0
    THEN [f \in 1..Len(fbs) |->
            IF BandInFatband(fbs[f], band)
            THEN [ Emin  |-> Min2(band[1], fbs[f].Emin),
                   Emax  |-> Max2(band[2], fbs[f].Emax),
                   bands |-> Append(fbs[f].bands, i) ]
            ELSE fbs[f]]
    ELSE Append(fbs, [Emin |-> band[1], Emax |-> band[2], bands |-> <<i>>])

\* as MergeBand, the joined fatband keeping its old E-max
MergeBand_NoGrow(fbs, i, band) ==
    LET f == FirstMatch(fbs, band)
    IN IF f # 0
       THEN [fbs EXCEPT ![f] = [ Emin  |-> Min2(band[1], fbs[f].Emin),
                                 Emax  |-> fbs[f].Emax,
                                 bands |-> Append(fbs[f].bands, i) ]]
       ELSE Append(fbs, [Emin |-> band[1], Emax |-> band[2], bands |-> <<i>>])

\* one pass of the outer loop body for the band with list index i
MergeBand(fbs, i, band) ==
    LET f == FirstMatch(fbs, band)
    IN IF f # 0
       THEN [fbs EXCEPT ![f] = [ Emin  |-> Min2(band[1], fbs[f].Emin),
                                 Emax  |-> Max2(band[2], fbs[f].Emax),
                                 bands |-> Append(fbs[f].bands, i) ]]
       ELSE Append(fbs, [Emin |-> band[1], Emax |-> band[2], bands |-> <<i>>])

\* identify_fatbands as one call: the bands are placed in index order
RECURSIVE FatbandsUpTo(_, _)
FatbandsUpTo(mm, n) ==
    IF n = 0 THEN <<>> ELSE MergeBand(FatbandsUpTo(mm, n - 1), n - 1, mm[n])

IdentifyFatbands(en) ==
    [ status |-> "ok", type |-> "tuple",
      fatbands |-> FatbandsUpTo(MinMaxEnergies(en), Len(en)),
      min_max_energies |-> MinMaxEnergies(en) ]

\* sorted(s, key=lambda x: x[key], reverse=True): descending, and entries
\* with equal keys stay in their order
RECURSIVE SortedDesc(_, _)
SortedDesc(s, key) ==
    IF s = <<>> THEN <<>>
    ELSE LET t == SortedDesc(SubSeq(s, 1, Len(s) - 1), key)
             x == s[Len(s)]
             n == Cardinality({j \in 1..Len(t) : t[j][key] >= x[key]})
         IN SubSeq(t, 1, n) \o <<x>> \o SubSeq(t, n + 1, Len(t))

\* fatband_info: the loop body reads the global name weights, which is bound
\* (to this BandData's array) only when the module runs as __main__; orbs is
\* the order of the keys of the weight dicts
FatbandInfo(w, orbs, mm, globals, fatband, top_n) ==
    IF Len(fatband.bands) > 0 /\ ~globals
    THEN [status |-> "NameError"]
    ELSE LET Info(b_idx) ==
                LET nion == Len(w[b_idx + 1])
                    contributions ==
                        [c \in 1..(nion * Len(orbs)) |->
                            LET i == ((c - 1) \div Len(orbs)) + 1
                                o == ((c - 1) % Len(orbs)) + 1
                            IN [ion |-> i, orbital |-> orbs[o],
                                weight |-> w[b_idx + 1][i][orbs[o]]]]
                    sorted == SortedDesc(contributions, "weight")
                    topk == SubSeq(sorted, 1, Min2(top_n, Len(sorted)))
                IN [ index |-> b_idx + 1,
                     Emin |-> mm[b_idx + 1][1],
                     Emax |-> mm[b_idx + 1][2],
                     topk |-> topk,
                     top_weight |-> IF topk # <<>> THEN topk[1].weight ELSE 0 ]
         IN [ status |-> "ok", type |-> "list",
              list |-> SortedDesc([j \in 1..Len(fatband.bands) |-> Info(fatband.bands[j])],
                                  "top_weight") ]

\* ------------------------------------------------------------------- Init
NoCall == [fn |-> "none"]

UiClosed == [open |-> FALSE]

NoParser == [pc |-> "none"]

NoThreads == <<>>

NoPress == [set |-> FALSE]

NoLine == [y |-> 0, press |-> NoPress, callbacks |-> 0, log |-> <<>>]

NoSsh == [ssh_thread |-> 0, workers |-> <<>>, events |-> <<>>, dialogs |-> <<>>,
          given |-> {}]

\* no window, no SSH connection in this scenario
NoGui ==
    /\ hline = NoLine
    /\ ssh = NoSsh

\* no Parser run and no concurrent callers in this scenario
LoadIdle ==
    /\ parser = NoParser
    /\ threads = NoThreads
    /\ NoGui

\* BandData.__init__ on the parsed dict
BandDataInit(f) ==
    /\ fermi = f
    /\ energies = ComputeEnergies(procar)
    /\ weights = ComputeWeights(procar)
    /\ band_weights = ComputeBandWeights(procar)
    /\ per_kpoint_weights = NoCache
    /\ n_computed = 0
    /\ orb_index = OrbIndex(procar)
    /\ call = NoCall
    /\ ui = UiClosed

FatbandsIdle ==
    /\ min_max_energies = <<>>
    /\ fatbands = <<>>
    /\ fb_i = 0
    /\ fb_pc = "idle"

FatShapes == {<<nb, nk>> : nb \in 1..MaxNB, nk \in 1..MaxNK}

InitFat ==
    /\ \E sh \in FatShapes :
         \E E \in [1..sh[1] -> [1..sh[2] -> 0..MaxE]] :
            procar = ProcarDict(sh[2], sh[1], 1, <<"s">>, E,
                        [b \in 1..sh[1] |-> [k \in 1..sh[2] |-> <<<<1>>>>]])
    /\ main_globals \in BOOLEAN
    /\ BandDataInit(0)
    /\ FatbandsIdle
    /\ LoadIdle

\* ---------------------------------------------------------------- actions
BandDataUnchanged ==
    UNCHANGED <<procar, fermi, energies, weights, per_kpoint_weights, orb_index,
                main_globals, call, ui, band_weights, n_computed, parser, threads, hline, ssh>>

\* lines 290-293: the per-band [min, max] list, empty fatbands
FatbandsStart ==
    /\ fb_pc = "idle"
    /\ min_max_energies' = MinMaxEnergies(energies)
    /\ fatbands' = <<>>
    /\ fb_i' = 1
    /\ fb_pc' = "loop"
    /\ BandDataUnchanged

\* lines 295-308: the band joins the first fatband it is in
JoinFatband ==
    /\ fb_pc = "loop"
    /\ fb_i <= Len(min_max_energies)
    /\ FirstMatch(fatbands, min_max_energies[fb_i]) # 0
    /\ fatbands' = MergeBand(fatbands, fb_i - 1, min_max_energies[fb_i])
    /\ fb_i' = fb_i + 1
    /\ UNCHANGED <<min_max_energies, fb_pc>>
    /\ BandDataUnchanged

\* lines 310-316: no fatband took the band, it starts a new one
NewFatband ==
    /\ fb_pc = "loop"
    /\ fb_i <= Len(min_max_energies)
    /\ FirstMatch(fatbands, min_max_energies[fb_i]) = 0
    /\ fatbands' = MergeBand(fatbands, fb_i - 1, min_max_energies[fb_i])
    /\ fb_i' = fb_i + 1
    /\ UNCHANGED <<min_max_energies, fb_pc>>
    /\ BandDataUnchanged

\* line 318
FatbandsReturn ==
    /\ fb_pc = "loop"
    /\ fb_i > Len(min_max_energies)
    /\ fb_pc' = "done"
    /\ UNCHANGED <<min_max_energies, fatbands, fb_i>>
    /\ BandDataUnchanged

NextFat == FatbandsStart \/ JoinFatband \/ NewFatband \/ FatbandsReturn

SpecFat == InitFat /\ [][NextFat]_vars

\* ------------------------------------------- window statistics (SpecWin)
OrbLabels == <<"s", "p">>

WinShapes ==
    {sh \in (1..MaxDim) \X (1..MaxDim) \X (1..MaxDim) \X (1..MaxDim) :
        sh[1] * sh[2] * sh[3] * sh[4] <= MaxCells}

\* the PROCAR of the spec's scenario: nk = 2, nb = 2, nion = 1, orbitals
\* [s, p]; band 1 at -1.0 and -0.8 eV, all s; band 2 at 0.5 and 0.6 eV,
\* all p.  Energies in tenths of an eV.
ScenarioProcar ==
    ProcarDict(2, 2, 1, <<"s", "p">>,
               <<<<-10, -8>>, <<5, 6>>>>,
               << <<<<<<1, 0>>>>, <<<<1, 0>>>>>>, <<<<<<0, 1>>>>, <<<<0, 1>>>>>> >>)

ScenarioWindow == <<-10, 0>>

InitWin ==
    /\ \/ \E sh \in WinShapes :
            \E E \in [1..sh[1] -> [1..sh[2] -> 0..MaxWE]] :
              \E W \in [1..sh[1] -> [1..sh[2] -> [1..sh[3] -> [1..sh[4] -> 0..MaxW]]]] :
                 procar = ProcarDict(sh[2], sh[1], sh[3], SubSeq(OrbLabels, 1, sh[4]), E, W)
       \/ procar = ScenarioProcar
    /\ main_globals \in BOOLEAN
    /\ BandDataInit(0)
    /\ FatbandsIdle
    /\ LoadIdle

Windows == {w \in (0..MaxWE) \X (0..MaxWE) : w[1] <= w[2]} \cup {ScenarioWindow}

\* the ions of the file and one ion index the file does not have
IonSelections == SUBSET (1..(procar.header.ions + 1))

OrbSelections == SUBSET {OrbLabels[o] : o \in 1..Len(OrbLabels)}

FatUnchanged == UNCHANGED <<min_max_energies, fatbands, fb_i, fb_pc>>

\* a method that accumulates into self.band_weights
ArraysUnchanged_Accumulates ==
    /\ band_weights' = [b \in DOMAIN band_weights |-> band_weights[b] + 1]
    /\ UNCHANGED <<procar, fermi, energies, weights, orb_index, main_globals>>

ArraysUnchanged ==
    UNCHANGED <<procar, fermi, energies, weights, band_weights, orb_index, main_globals>>

MethodFrame == ArraysUnchanged /\ FatUnchanged /\ UNCHANGED <<ui, parser, threads, hline, ssh>>

\* compute_per_kpoint_weights()
CallComputePerKpointWeights ==
    /\ call = NoCall /\ ~ui.open
    /\ per_kpoint_weights' = ComputePerKpointWeights(procar, per_kpoint_weights)
    /\ n_computed' = n_computed + Builds(per_kpoint_weights)
    /\ call' = [fn |-> "compute_per_kpoint_weights", status |-> "ok",
                computed |-> ~per_kpoint_weights.filled]
    /\ MethodFrame

\* compute_selected_weights(ions, orbs)
CallComputeSelectedWeights ==
    /\ call = NoCall /\ ~ui.open
    /\ \E ions \in IonSelections, orbs \in OrbSelections :
        /\ call' = [fn |-> "compute_selected_weights", ions |-> ions, orbs |-> orbs,
                    status |-> "ok",
                    selected_weights |-> ComputeSelectedWeights(weights, ions, orbs)]
        /\ UNCHANGED <<per_kpoint_weights, n_computed>>
        /\ MethodFrame

\* compute_per_kpoint_selected_weights(ions, orbs)
CallComputePerKpointSelectedWeights ==
    /\ call = NoCall /\ ~ui.open
    /\ \E ions \in IonSelections, orbs \in OrbSelections :
        LET cache == ComputePerKpointWeights(procar, per_kpoint_weights)
        IN /\ per_kpoint_weights' = cache
           /\ n_computed' = n_computed + Builds(per_kpoint_weights)
           /\ call' = [fn |-> "compute_per_kpoint_selected_weights",
                       ions |-> ions, orbs |-> orbs, status |-> "ok",
                       selected_per_k |-> PerKpointSelected(cache, orb_index, ions, orbs),
                       per_k_totals |-> cache.per_k_totals]
           /\ MethodFrame

\* get_bands_in_window(ymin, ymax)
CallGetBandsInWindow ==
    /\ call = NoCall /\ ~ui.open
    /\ \E win \in Windows :
        /\ call' = [fn |-> "get_bands_in_window", ymin |-> win[1], ymax |-> win[2]]
                      @@ GetBandsInWindow(energies, main_globals, win[1], win[2])
        /\ UNCHANGED <<per_kpoint_weights, n_computed>>
        /\ MethodFrame

\* get_selected_weights_in_window_approx(ymin, ymax, ions, orbs)
CallApprox ==
    /\ call = NoCall /\ ~ui.open
    /\ \E win \in Windows, ions \in IonSelections, orbs \in OrbSelections :
        /\ call' = [fn |-> "get_selected_weights_in_window_approx",
                    ymin |-> win[1], ymax |-> win[2], ions |-> ions, orbs |-> orbs]
                      @@ SelectedWeightsInWindowApprox(energies, weights, main_globals,
                                                       win[1], win[2], ions, orbs)
        /\ UNCHANGED <<per_kpoint_weights, n_computed>>
        /\ MethodFrame

\* get_selected_weights_in_window_exact(ymin, ymax, ions, orbs)
CallExact ==
    /\ call = NoCall /\ ~ui.open
    /\ \E win \in Windows, ions \in IonSelections, orbs \in OrbSelections :
        LET cache == ComputePerKpointWeights(procar, per_kpoint_weights)
        IN /\ per_kpoint_weights' = cache
           /\ n_computed' = n_computed + Builds(per_kpoint_weights)
           /\ call' = [fn |-> "get_selected_weights_in_window_exact",
                       ymin |-> win[1], ymax |-> win[2], ions |-> ions, orbs |-> orbs]
                         @@ SelectedWeightsInWindowExact(energies, cache, orb_index,
                                procar.header.orbitals, win[1], win[2], ions, orbs)
           /\ MethodFrame

MaxTopN == 2        \* fatband_info is asked for the top 1..MaxTopN contributions

\* identify_fatbands()
CallIdentifyFatbands ==
    /\ call = NoCall /\ ~ui.open
    /\ call' = [fn |-> "identify_fatbands"] @@ IdentifyFatbands(energies)
    /\ UNCHANGED <<per_kpoint_weights, n_computed>>
    /\ MethodFrame

\* fatband_info(fatband, min_max_energies, top_n) for a fatband and the
\* list identify_fatbands returned (with min_max_energies=None the method
\* gets the same list from identify_fatbands itself)
CallFatbandInfo ==
    /\ call = NoCall /\ ~ui.open
    /\ LET found == IdentifyFatbands(energies)
       IN \E f \in 1..Len(found.fatbands), top_n \in 1..MaxTopN :
            call' = [fn |-> "fatband_info", fatband |-> found.fatbands[f], top_n |-> top_n]
                      @@ FatbandInfo(weights, procar.header.orbitals, found.min_max_energies,
                                     main_globals, found.fatbands[f], top_n)
    /\ UNCHANGED <<per_kpoint_weights, n_computed>>
    /\ MethodFrame

\* the caller takes the outcome; the next call can start
CallReturn ==
    /\ call # NoCall
    /\ call' = NoCall
    /\ UNCHANGED <<per_kpoint_weights, n_computed>>
    /\ MethodFrame

NextWin ==
    \/ CallComputePerKpointWeights
    \/ CallComputeSelectedWeights
    \/ CallComputePerKpointSelectedWeights
    \/ CallGetBandsInWindow
    \/ CallApprox
    \/ CallExact
    \/ CallIdentifyFatbands
    \/ CallFatbandInfo
    \/ CallReturn

SpecWin == InitWin /\ [][NextWin]_vars

\* ------------------------------------------------ interactive UI (SpecUI)
\* remote_analysis.launch_procar_ui: the module is imported, the BandData is
\* built with the parsed Fermi energy and the UI gets its arrays
InitUI ==
    /\ \/ \E sh \in {x \in WinShapes : x[1] * x[2] * x[3] * x[4] <= MaxUiCells} :
            \E E \in [1..sh[1] -> [1..sh[2] -> 0..MaxWE]] :
              \E W \in [1..sh[1] -> [1..sh[2] -> [1..sh[3] -> [1..sh[4] -> 0..MaxW]]]] :
                 procar = ProcarDict(sh[2], sh[1], sh[3], SubSeq(OrbLabels, 1, sh[4]), E, W)
       \/ procar = ScenarioProcar
    /\ main_globals = FALSE
    /\ \E f \in 0..MaxFermi : BandDataInit(f)
    /\ FatbandsIdle
    /\ LoadIdle

\* one eV in the units of the energies (the scenario counts tenths)
EnergyUnit == IF procar = ScenarioProcar THEN 10 ELSE 1

\* the positions a line can be dragged to
LineYs == (-1..(MaxWE + 1)) \cup {-EnergyUnit, EnergyUnit}

UiState(s_ions, s_orbs, ytop, ybot) ==
    [ open |-> TRUE, s_ions |-> s_ions, s_orbs |-> s_orbs,
      top_line |-> ytop, bot_line |-> ybot,
      stats |-> UpdatePlot(weights, energies, fermi, s_ions, s_orbs, ytop, ybot) ]

UiFrame ==
    /\ UNCHANGED <<per_kpoint_weights, n_computed, call, parser, threads, hline, ssh>>
    /\ ArraysUnchanged /\ FatUnchanged

\* lines 525-766: nothing checked, the lines at +1 and -1 eV, initial draw
LaunchUi ==
    /\ call = NoCall /\ ~ui.open
    /\ ui' = UiState({}, {}, EnergyUnit, -EnergyUnit)
    /\ UiFrame

\* orbit_cb.on_clicked: the box toggles, update_plot
ClickOrbital ==
    /\ ui.open
    /\ \E o \in 1..Len(procar.header.orbitals) :
          LET lab == procar.header.orbitals[o]
              s_orbs == IF lab \in ui.s_orbs THEN ui.s_orbs \ {lab} ELSE ui.s_orbs \cup {lab}
          IN ui' = UiState(ui.s_ions, s_orbs, ui.top_line, ui.bot_line)
    /\ UiFrame

\* ion_cb.on_clicked: the box toggles, update_plot
ClickIon ==
    /\ ui.open
    /\ \E i \in 1..procar.header.ions :
          LET s_ions == IF i \in ui.s_ions THEN ui.s_ions \ {i} ELSE ui.s_ions \cup {i}
          IN ui' = UiState(s_ions, ui.s_orbs, ui.top_line, ui.bot_line)
    /\ UiFrame

\* a drag of the top line to y: on_motion moves it, on_release runs update_plot
DragTopLine ==
    /\ ui.open
    /\ \E y \in LineYs : ui' = UiState(ui.s_ions, ui.s_orbs, y, ui.bot_line)
    /\ UiFrame

\* a drag of the bottom line to y
DragBotLine ==
    /\ ui.open
    /\ \E y \in LineYs : ui' = UiState(ui.s_ions, ui.s_orbs, ui.top_line, y)
    /\ UiFrame

\* plt.show() returns when the window is closed
CloseUi ==
    /\ ui.open
    /\ ui' = UiClosed
    /\ UiFrame

NextUI ==
    \/ LaunchUi
    \/ ClickOrbital
    \/ ClickIon
    \/ DragTopLine
    \/ DragBotLine
    \/ CloseUi

SpecUI == InitUI /\ [][NextUI]_vars

\* ------------------------------------------------ Parser runs (SpecLoad)
\* A line of a file after line.split(): a sequence of tokens.  A token is
\* text; the model keeps what int() and float() make of it.
IntTok(v) == [t |-> "int", v |-> v]

FloatTok(v) == [t |-> "float", v |-> v]

WordTok(w) == [t |-> "word", s |-> w]

\* int(token) succeeds
IsInt(tok) == tok.t = "int"

\* float(token) succeeds
IsFloat(tok) == tok.t \in {"int", "float"}

\* lines[n] and line[j] with the program's 0-based indices
HasLine(lines, n) == n < Len(lines)

HasTok(line, j) == j < Len(line)

Tok(line, j) == line[j + 1]

\* line[-1]
LastTok(line) == line[Len(line)]

None == [none |-> TRUE]

Some(d) == [none |-> FALSE, dict |-> d]

\* lines 101-107 raise: a header line is missing, or a count is missing or
\* is not an integer
HeaderRaises(lines) ==
    \/ ~HasLine(lines, 1)
    \/ \E j \in {3, 7, 11} : ~HasTok(lines[2], j) \/ ~IsInt(Tok(lines[2], j))
    \/ ~HasLine(lines, 7)

\* the text of an orbital label
Label(tok) == IF tok.t = "word" THEN tok.s ELSE "number"

\* lines 101-116
HeaderOf(lines) ==
    [ title    |-> lines[1],
      kpoints  |-> Tok(lines[2], 3).v,
      bands    |-> Tok(lines[2], 7).v,
      ions     |-> Tok(lines[2], 11).v,
      orbitals |-> [o \in 1..(Len(lines[8]) - 2) |-> Label(lines[8][o + 1])] ]

\* lines 131-133 raise on the k-point line lines[n]
KpointRaises(lines, n) ==
    \/ ~HasLine(lines, n)
    \/ \E j \in 3..5 : HasTok(lines[n + 1], j) /\ ~IsFloat(Tok(lines[n + 1], j))
    \/ ~HasTok(lines[n + 1], 8)
    \/ ~IsFloat(Tok(lines[n + 1], 8))

\* lines 125-134
KpointOf(lines, n, k_idx) ==
    [ index       |-> k_idx,
      coordinates |-> [j \in 1..(IF Len(lines[n + 1]) < 6 THEN Len(lines[n + 1]) - 3 ELSE 3) |->
                          Tok(lines[n + 1], j + 2).v],
      weight      |-> Tok(lines[n + 1], 8).v,
      bands       |-> <<>> ]

\* lines 153-155 and 160-162 read one row of weights, lines[n]: the columns
\* 1..norb and the last one.  With no orbital label the loop body never runs
\* and the row is not read; every file below has at least one label.
RowRaises(lines, n, norb) ==
    /\ norb > 0
    /\ \/ ~HasLine(lines, n)
       \/ \E o \in 1..norb : ~HasTok(lines[n + 1], o) \/ ~IsFloat(Tok(lines[n + 1], o))
       \/ ~IsFloat(LastTok(lines[n + 1]))

RowOf(lines, n, norb) ==
    [ w     |-> [o \in 1..norb |-> Tok(lines[n + 1], o).v],
      total |-> LastTok(lines[n + 1]).v ]

\* lines 139-162 raise for the band whose block starts after lines[n]
BandRaises(lines, n, nion, norb) ==
    \/ ~HasLine(lines, n + 2)
    \/ \E j \in {4, 7} : ~HasTok(lines[n + 3], j) \/ ~IsFloat(Tok(lines[n + 3], j))
    \/ \E i \in 1..nion : RowRaises(lines, n + 4 + i, norb)
    \/ RowRaises(lines, n + 4 + nion + 1, norb)

\* lines 138-162: the band dict
BandOf(lines, n, b_idx, nion, norb) ==
    [ index     |-> b_idx,
      energy    |-> Tok(lines[n + 3], 4).v,
      occupancy |-> Tok(lines[n + 3], 7).v,
      ions      |-> [i \in 1..nion |->
                        [index |-> i] @@ RowOf(lines, n + 4 + i, norb)],
      total     |-> RowOf(lines, n + 4 + nion + 1, norb) ]

\* a handler that returns what was parsed so far
Except_ReturnsPartial(ps) ==
    [ps EXCEPT !.pc = "fermi", !.procar = ps.local,
               !.out = Append(ps.out, "Error")]

\* no handler: the exception leaves Parser.PROCAR
Except_Propagates(ps) ==
    [ps EXCEPT !.pc = "raised", !.propagated = "Exception"]

\* lines 170-172: the exception is printed and None is returned

Except(ps) ==
    [ps EXCEPT !.pc = "fermi", !.procar = None,
               !.out = Append(ps.out, "Error")]

\* float(lines[0]) of FERMI raises: no file, no line, or the line is not
\* one number
FermiRaises(f) ==
    \/ f.state # "ok"
    \/ Len(f.lines) = 0
    \/ Len(f.lines[1]) # 1
    \/ ~IsFloat(f.lines[1][1])

\* a FERMI that reads the last line of the file
FERMI_LastLine(f) ==
    IF FermiRaises(f) \/ ~IsFloat(f.lines[Len(f.lines)][1])
    THEN [raised |-> FALSE, value |-> 0, out |-> <<"FERMI ENERGY NOT FOUND">>]
    ELSE [raised |-> FALSE, value |-> f.lines[Len(f.lines)][1].v, out |-> <<>>]

\* Parser.FERMI without its except clause
FERMI_NoExcept(f) ==
    IF FermiRaises(f)
    THEN [raised |-> TRUE, value |-> 0, out |-> <<>>]
    ELSE [raised |-> FALSE, value |-> f.lines[1][1].v, out |-> <<>>]

\* Parser.FERMI, lines 175-182
FERMI(f) ==
    IF FermiRaises(f)
    THEN [raised |-> FALSE, value |-> 0, out |-> <<"FERMI ENERGY NOT FOUND">>]
    ELSE [raised |-> FALSE, value |-> f.lines[1][1].v, out |-> <<>>]

\* the lines of a PROCAR file as VASP lays them out
CountsLine(nk, nb, nion) ==
    << WordTok("#"), WordTok("of"), WordTok("k-points:"), IntTok(nk),
       WordTok("#"), WordTok("of"), WordTok("bands:"), IntTok(nb),
       WordTok("#"), WordTok("of"), WordTok("ions:"), IntTok(nion) >>

KpointLine(k) ==
    << WordTok("k-point"), IntTok(k), WordTok(":"), FloatTok(0), FloatTok(0), FloatTok(0),
       WordTok("weight"), WordTok("="), FloatTok(1) >>

BandLine(b, e) ==
    << WordTok("band"), IntTok(b), WordTok("#"), WordTok("energy"), FloatTok(e),
       WordTok("#"), WordTok("occ."), FloatTok(1) >>

RECURSIVE ConcatTo(_, _)
ConcatTo(f, n) == IF n = 0 THEN <<>> ELSE ConcatTo(f, n - 1) \o f[n]

\* one band of one k-point: the blank line, the band line, the blank line,
\* the column titles, one line per ion and the "tot" line; T is the last
\* entry of the "tot" line
BandBlock(b, nion, orbs, e, W, T) ==
    << <<>>, BandLine(b, e), <<>>,
       <<WordTok("ion")>> \o [o \in 1..Len(orbs) |-> WordTok(orbs[o])] \o <<WordTok("tot")>> >>
    \o [i \in 1..nion |->
          <<IntTok(i)>> \o [o \in 1..Len(orbs) |-> FloatTok(W[i][o])]
              \o <<FloatTok(SumFn([o \in 1..Len(orbs) |-> W[i][o]]))>>]
    \o << <<WordTok("tot")>>
            \o [o \in 1..Len(orbs) |-> FloatTok(SumFn([i \in 1..nion |-> W[i][o]]))]
            \o <<FloatTok(T)>> >>

KpointBlock(k, nb, nion, orbs, E, W, T) ==
    <<KpointLine(k)>>
    \o ConcatTo([b \in 1..nb |-> BandBlock(b, nion, orbs, E[b][k], W[b][k], T[b][k])], nb)

FileOf(nk, nb, nion, orbs, E, W, T) ==
    << <<WordTok("PROCAR"), WordTok("lm"), WordTok("decomposed")>>,
       CountsLine(nk, nb, nion) >>
    \o ConcatTo([k \in 1..nk |->
                   (IF k = 1 THEN << <<>> >> ELSE << <<>>, <<>> >>)
                   \o KpointBlock(k, nb, nion, orbs, E, W, T)], nk)

\* the sum VASP writes as the last entry of the band's "tot" line
BandTotal(W, b, k) ==
    SumFn([i \in DOMAIN W[b][k] |-> SumFn([o \in DOMAIN W[b][k][i] |-> W[b][k][i][o]])])

MaxFileCells == 2   \* files: at most MaxFileCells weight entries
MaxSkew == 1        \* files: a "tot" line is off its sum by 0..MaxSkew

FileShapes == {sh \in WinShapes : sh[1] * sh[2] * sh[3] * sh[4] <= MaxFileCells}

\* the files VASP can have written, and the ones whose "tot" lines do not
\* add up; the scenario of the specification is one of them
WellFormedFiles ==
    UNION { { FileOf(sh[2], sh[1], sh[3], SubSeq(OrbLabels, 1, sh[4]), E, W,
                     [b \in 1..sh[1] |-> [k \in 1..sh[2] |-> BandTotal(W, b, k) + D[b][k]]]) :
                E \in [1..sh[1] -> [1..sh[2] -> 0..MaxWE]],
                W \in [1..sh[1] -> [1..sh[2] -> [1..sh[3] -> [1..sh[4] -> 0..MaxW]]]],
                D \in [1..sh[1] -> [1..sh[2] -> 0..MaxSkew]] } : sh \in FileShapes }
    \cup { FileOf(2, 2, 1, <<"s", "p">>, <<<<-10, -8>>, <<5, 6>>>>,
                  << <<<<<<1, 0>>>>, <<<<1, 0>>>>>>, <<<<<<0, 1>>>>, <<<<0, 1>>>>>> >>,
                  <<<<1, 1>>, <<1, 1>>>>) }

\* the file cut after its first m lines
Truncated(f, m) == SubSeq(f, 1, m)

\* the count at position j of the second line replaced
BadCount(f, j, tok) == [f EXCEPT ![2][j + 1] = tok]

\* the second line without its last token
ShortCounts(f) == [f EXCEPT ![2] = SubSeq(@, 1, Len(@) - 1)]

\* the count at position j declares one more than the file holds
Overdeclared(f, j) == [f EXCEPT ![2][j + 1] = IntTok(@.v + 1)]

\* the first ion line without its last column, or with one column more
DropColumn(f) == [f EXCEPT ![9] = SubSeq(@, 1, Len(@) - 1)]

ExtraColumn(f) == [f EXCEPT ![9] = <<@[1], FloatTok(1)>> \o Tail(@)]

\* the PROCAR paths a Parser can be given
ProcarFiles ==
    {[state |-> "missing", kind |-> "missing", lines |-> <<>>]}
    \cup {[state |-> "ok", kind |-> "well-formed", lines |-> f] : f \in WellFormedFiles}
    \cup UNION {{[state |-> "ok", kind |-> "truncated", lines |-> Truncated(f, m)] :
                    m \in 0..(Len(f) - 1)} : f \in WellFormedFiles}
    \cup {[state |-> "ok", kind |-> "header", lines |-> BadCount(f, j, tok)] :
              f \in WellFormedFiles, j \in {3, 7, 11}, tok \in {WordTok("x"), FloatTok(1)}}
    \cup {[state |-> "ok", kind |-> "header", lines |-> ShortCounts(f)] : f \in WellFormedFiles}
    \cup {[state |-> "ok", kind |-> "truncated", lines |-> Overdeclared(f, j)] :
              f \in WellFormedFiles, j \in {3, 7, 11}}
    \cup {[state |-> "ok", kind |-> "columns", lines |-> DropColumn(f)] : f \in WellFormedFiles}
    \cup {[state |-> "ok", kind |-> "columns", lines |-> ExtraColumn(f)] : f \in WellFormedFiles}

\* the FERMI paths: no file, a file that cannot be read, an empty file, one
\* number, a number with a unit, a word, and a number followed by a second
\* line
FermiFiles ==
    {[state |-> st, lines |-> <<>>] : st \in {"missing", "unreadable", "ok"}}
    \cup {[state |-> "ok", lines |-> <<<<FloatTok(v)>>>>] : v \in 0..MaxFermi}
    \cup {[state |-> "ok", lines |-> <<<<FloatTok(MaxFermi), WordTok("eV")>>>>],
          [state |-> "ok", lines |-> <<<<WordTok("x")>>>>],
          [state |-> "ok", lines |-> <<<<FloatTok(MaxFermi)>>, <<FloatTok(0)>>>>],
          [state |-> "ok", lines |-> <<<<FloatTok(MaxFermi)>>, <<WordTok("x")>>>>]}

\* before BandData(...) runs there is no BandData object
NoBandData ==
    /\ procar = None
    /\ fermi = 0
    /\ energies = <<>>
    /\ weights = <<>>
    /\ band_weights = <<>>
    /\ per_kpoint_weights = NoCache
    /\ orb_index = <<>>
    /\ call = NoCall
    /\ ui = UiClosed
    /\ n_computed = 0

\* remote_analysis.launch_procar_ui is about to run Parser(procar, fermi)
InitLoad ==
    /\ parser = [pc |-> "start"]
    /\ threads = NoThreads
    /\ NoGui
    /\ main_globals = FALSE
    /\ NoBandData
    /\ FatbandsIdle

LoadFrame ==
    /\ UNCHANGED <<procar, fermi, energies, weights, band_weights, per_kpoint_weights,
                   orb_index, call, ui, n_computed, main_globals, threads, hline, ssh>>
    /\ FatUnchanged

\* lines 93-98: open, readlines, split
PROCAR_Open ==
    /\ parser.pc = "start"
    /\ \E f \in ProcarFiles :
          LET ps == [ pc |-> "header", kind |-> f.kind, lines |-> f.lines, n |-> 0,
                      k_idx |-> 0, b_idx |-> 0, local |-> None, kpoint |-> None,
                      out |-> <<>>, procar |-> None, fermi |-> None,
                      fermi_file |-> None, propagated |-> "none" ]
          IN parser' = IF f.state = "ok" THEN ps ELSE Except(ps)
    /\ LoadFrame

\* lines 101-122: title, counts, orbital labels, the empty k-point list
PROCAR_Header ==
    /\ parser.pc = "header"
    /\ parser' = IF HeaderRaises(parser.lines) THEN Except(parser)
                 ELSE [parser EXCEPT !.pc = "kpoint", !.n = 2, !.k_idx = 1,
                          !.local = Some([header |-> HeaderOf(parser.lines),
                                          kpoints |-> <<>>])]
    /\ LoadFrame

\* lines 123-134: the next k-point line
PROCAR_Kpoint ==
    /\ parser.pc = "kpoint"
    /\ parser.k_idx <= parser.local.dict.header.kpoints
    /\ parser' = IF KpointRaises(parser.lines, parser.n + 1) THEN Except(parser)
                 ELSE [parser EXCEPT !.pc = "band", !.n = @ + 1, !.b_idx = 1,
                          !.kpoint = KpointOf(parser.lines, parser.n + 1, parser.k_idx)]
    /\ LoadFrame

\* lines 136-164: the next band of the k-point, its ions and its total
PROCAR_Band ==
    /\ parser.pc = "band"
    /\ parser.b_idx <= parser.local.dict.header.bands
    /\ LET hd == parser.local.dict.header
       IN parser' =
            IF BandRaises(parser.lines, parser.n, hd.ions, Len(hd.orbitals))
            THEN Except(parser)
            ELSE [parser EXCEPT !.n = @ + 4 + hd.ions + 1, !.b_idx = @ + 1,
                     !.kpoint.bands = Append(@, BandOf(parser.lines, parser.n, parser.b_idx,
                                                       hd.ions, Len(hd.orbitals)))]
    /\ LoadFrame

\* lines 167-168: the k-point joins the list
PROCAR_KpointEnd ==
    /\ parser.pc = "band"
    /\ parser.b_idx > parser.local.dict.header.bands
    /\ parser' = [parser EXCEPT !.pc = "kpoint", !.n = @ + 2, !.k_idx = @ + 1,
                     !.local.dict.kpoints = Append(@, parser.kpoint)]
    /\ LoadFrame

\* line 169
PROCAR_Return ==
    /\ parser.pc = "kpoint"
    /\ parser.k_idx > parser.local.dict.header.kpoints
    /\ parser' = [parser EXCEPT !.pc = "fermi", !.procar = parser.local]
    /\ LoadFrame

\* line 73: self.fermi = self.FERMI(fermi_path)
CallFERMI ==
    /\ parser.pc = "fermi"
    /\ \E f \in FermiFiles :
          LET r == FERMI(f)
          IN parser' = [parser EXCEPT !.pc = IF r.raised THEN "raised" ELSE "done",
                           !.propagated = IF r.raised THEN "Exception" ELSE "none",
                           !.fermi_file = f,
                           !.fermi = r.value, !.out = @ \o r.out]
    /\ LoadFrame

\* remote_analysis lines 121-123: no dict, the warning, no analysis
LaunchWarning ==
    /\ parser.pc = "done"
    /\ parser.procar.none
    /\ parser' = [parser EXCEPT !.pc = "warned",
                     !.out = Append(@, "Failed to parse PROCAR file")]
    /\ LoadFrame

\* remote_analysis line 126: BandData(parser.procar, parser.fermi or 0.0)
LaunchBandData ==
    /\ parser.pc = "done"
    /\ ~parser.procar.none
    /\ parser' = [parser EXCEPT !.pc = "built"]
    /\ procar' = parser.procar.dict
    /\ fermi' = parser.fermi
    /\ energies' = ComputeEnergies(parser.procar.dict)
    /\ weights' = ComputeWeights(parser.procar.dict)
    /\ band_weights' = ComputeBandWeights(parser.procar.dict)
    /\ per_kpoint_weights' = NoCache
    /\ orb_index' = OrbIndex(parser.procar.dict)
    /\ UNCHANGED <<call, ui, n_computed, main_globals, threads, hline, ssh>>
    /\ FatUnchanged

NextLoad ==
    \/ PROCAR_Open
    \/ PROCAR_Header
    \/ PROCAR_Kpoint
    \/ PROCAR_Band
    \/ PROCAR_KpointEnd
    \/ PROCAR_Return
    \/ CallFERMI
    \/ LaunchWarning
    \/ LaunchBandData

SpecLoad == InitLoad /\ [][NextLoad]_vars

\* --------------------- concurrent compute_per_kpoint_weights (SpecConc)
MaxCallers == 2     \* threads that call compute_per_kpoint_weights at once

\* lines 249-250: the zero arrays
ZeroArrays(p) ==
    [ filled |-> TRUE,
      per_k  |-> [b \in 1..p.header.bands |-> [k \in 1..p.header.kpoints |->
                    [i \in 1..p.header.ions |-> [o \in 1..Len(p.header.orbitals) |-> 0]]]],
      per_k_totals |-> [b \in 1..p.header.bands |-> [k \in 1..p.header.kpoints |-> 0]] ]

\* lines 253-260 for k-point k: every band, ion and orbital of the k-point
\* is written into the local arrays
FillKpoint(local, p, k) ==
    LET IonW(b, i, o) ==
            LET band == CHOOSE r \in {p.kpoints[k].bands[j] : j \in 1..Len(p.kpoints[k].bands)} :
                            r.index = b
                ion  == CHOOSE r \in {band.ions[j] : j \in 1..Len(band.ions)} : r.index = i
            IN ion.w[o]
        Row(b) == [i \in 1..p.header.ions |->
                      [o \in 1..Len(p.header.orbitals) |-> IonW(b, i, o)]]
    IN [ filled |-> TRUE,
         per_k  |-> [b \in 1..p.header.bands |-> [local.per_k[b] EXCEPT ![k] = Row(b)]],
         per_k_totals |->
            [b \in 1..p.header.bands |->
                [local.per_k_totals[b] EXCEPT ![k] =
                    @ + SumFn([i \in 1..p.header.ions |-> SumFn(Row(b)[i])])]] ]

\* the loop of line 252 has run out
LoopDone_Early(th, p) == TRUE

LoopDone(th, p) == th.k > Len(p.kpoints)

InitConc ==
    /\ \E sh \in WinShapes :
         \E W \in [1..sh[1] -> [1..sh[2] -> [1..sh[3] -> [1..sh[4] -> 0..MaxW]]]] :
            procar = ProcarDict(sh[2], sh[1], sh[3], SubSeq(OrbLabels, 1, sh[4]),
                                [b \in 1..sh[1] |-> [k \in 1..sh[2] |-> 0]], W)
    /\ main_globals = FALSE
    /\ BandDataInit(0)
    /\ FatbandsIdle
    /\ parser = NoParser
    /\ NoGui
    /\ threads = [t \in 1..MaxCallers |->
                    [pc |-> "call", k |-> 0, local |-> NoCache, ret |-> NoCache]]

ConcFrame ==
    /\ ArraysUnchanged /\ FatUnchanged
    /\ UNCHANGED <<ui, parser, call, hline, ssh>>

\* lines 240-241: the cache test, and the return of the cached tuple
ThreadTest(t) ==
    /\ threads[t].pc = "call"
    /\ threads' = [threads EXCEPT ![t] =
          IF CacheHit(per_kpoint_weights)
          THEN [@ EXCEPT !.pc = "done", !.ret = per_kpoint_weights]
          ELSE [@ EXCEPT !.pc = "alloc"]]
    /\ UNCHANGED <<per_kpoint_weights, n_computed>>
    /\ ConcFrame

\* lines 243-250: this caller builds the arrays
ThreadAlloc(t) ==
    /\ threads[t].pc = "alloc"
    /\ threads' = [threads EXCEPT ![t] =
          [@ EXCEPT !.pc = "loop", !.k = 1, !.local = ZeroArrays(procar)]]
    /\ n_computed' = n_computed + 1
    /\ UNCHANGED per_kpoint_weights
    /\ ConcFrame

\* lines 252-260: one pass of the k-point loop
ThreadFill(t) ==
    /\ threads[t].pc = "loop"
    /\ ~LoopDone(threads[t], procar)
    /\ threads' = [threads EXCEPT ![t] =
          [@ EXCEPT !.k = @ + 1, !.local = FillKpoint(@, procar, threads[t].k)]]
    /\ UNCHANGED <<per_kpoint_weights, n_computed>>
    /\ ConcFrame

\* line 262: the tuple is bound to self._per_kpoint_weights
ThreadStore(t) ==
    /\ threads[t].pc = "loop"
    /\ LoopDone(threads[t], procar)
    /\ per_kpoint_weights' = threads[t].local
    /\ threads' = [threads EXCEPT ![t] = [@ EXCEPT !.pc = "stored"]]
    /\ UNCHANGED n_computed
    /\ ConcFrame

\* line 263: return self._per_kpoint_weights
ThreadReturn(t) ==
    /\ threads[t].pc = "stored"
    /\ threads' = [threads EXCEPT ![t] =
          [@ EXCEPT !.pc = "done", !.ret = per_kpoint_weights]]
    /\ UNCHANGED <<per_kpoint_weights, n_computed>>
    /\ ConcFrame

NextConc ==
    \E t \in 1..MaxCallers :
        \/ ThreadTest(t)
        \/ ThreadAlloc(t)
        \/ ThreadFill(t)
        \/ ThreadStore(t)
        \/ ThreadReturn(t)

SpecConc == InitConc /\ [][NextConc]_vars

\* ------------------------------------------- DraggableHLine (SpecDrag)
MaxY == 1           \* the mouse and the line are at y in -MaxY..MaxY
MaxEvents == 4      \* mouse events delivered to the line

\* self.press after a press on the line: event.ydata of that press
Pressed(y) == [set |-> TRUE, ydata |-> y]

\* a mouse event of the canvas: inside the line's axes at ydata, or elsewhere
\* on the figure (event.inaxes is None or another axes)
MouseEvents ==
    {[inaxes |-> FALSE, ydata |-> 0]} \cup
    {[inaxes |-> TRUE, ydata |-> y] : y \in -MaxY..MaxY}

\* line 35: self.line.contains(event), the mouse is on the line
Contains(l, e) == e.inaxes /\ e.ydata = l.y

\* the event as the canvas delivered it, kept for the history of the run
Logged(l, kind, e) ==
    Append(l.log, [kind |-> kind, inaxes |-> e.inaxes, ydata |-> e.ydata,
                   contains |-> Contains(l, e)])

\* lines 33-37
on_press(l, e) ==
    IF ~e.inaxes THEN l
    ELSE IF Contains(l, e) THEN [l EXCEPT !.press = Pressed(e.ydata)]
    ELSE l

\* lines 39-52
on_motion(l, e) ==
    IF ~l.press.set \/ ~e.inaxes THEN l
    ELSE [l EXCEPT !.y = e.ydata]

\* lines 54-62; on_change_callback is update_plot (lines 761-762)
on_release(l, e) ==
    [l EXCEPT !.press = NoPress, !.callbacks = @ + 1]

\* lines 576-577: top_line at +1.0 or bot_line at -1.0, hooked to update_plot
InitDrag ==
    /\ \E y \in {1, -1} : hline = [NoLine EXCEPT !.y = y]
    /\ ssh = NoSsh
    /\ parser = NoParser
    /\ threads = NoThreads
    /\ main_globals = FALSE
    /\ NoBandData
    /\ FatbandsIdle

DragFrame ==
    UNCHANGED <<procar, fermi, energies, weights, per_kpoint_weights, orb_index,
                main_globals, call, ui, min_max_energies, fatbands, fb_i, fb_pc,
                band_weights, n_computed, parser, threads, ssh>>

Deliver(kind, e, l) ==
    /\ Len(hline.log) < MaxEvents
    /\ hline' = [l EXCEPT !.log = Logged(hline, kind, e)]
    /\ DragFrame

ButtonPress == \E e \in MouseEvents : Deliver("press", e, on_press(hline, e))

MouseMotion == \E e \in MouseEvents : Deliver("motion", e, on_motion(hline, e))

ButtonRelease == \E e \in MouseEvents : Deliver("release", e, on_release(hline, e))

NextDrag == ButtonPress \/ MouseMotion \/ ButtonRelease

SpecDrag == InitDrag /\ [][NextDrag]_vars

\* --------------------------- SSHThread and the 2FA dialogs (SpecSsh)
MaxConnects == 2    \* calls of HPCClient._connect_with_2fa
MaxPrompts == 2     \* prompts the server sends to one SSHThread

\* SSHThread.otp_result holding the string c
Otp(c) == [none |-> FALSE, code |-> c]

\* the prompts of one call of handler: "Password" in prompt, or an OTP prompt
PromptLists(n) ==
    UNION {[1..m -> {"Password", "otp"}] : m \in 1..n}

\* what the user types in QInputDialog.getText
Texts == {"", "otp"}

\* lines 50-57: SSHThread.__init__; emitted and used are the history of the
\* run: the finished_signal emissions and the OTP answers appended
SSHThreadInit ==
    [pc |-> "start", otp_result |-> None, prompts |-> <<>>, answers |-> <<>>,
     sent |-> 0, asked |-> 0, emitted |-> <<>>, used |-> {}]

\* line 86: the wait loop ends when otp_result is not None
WaitOver(w) == w.otp_result # None

\* lines 101 and 103: finished_signal.emit(success, ...), the end of run
Finished(w, success) ==
    [w EXCEPT !.pc = "done", !.emitted = Append(@, success)]

SshFrame ==
    UNCHANGED <<procar, fermi, energies, weights, per_kpoint_weights, orb_index,
                main_globals, call, ui, min_max_energies, fatbands, fb_i, fb_pc,
                band_weights, n_computed, parser, threads, hline>>

InitSsh ==
    /\ ssh = NoSsh
    /\ hline = NoLine
    /\ parser = NoParser
    /\ threads = NoThreads
    /\ main_globals = FALSE
    /\ NoBandData
    /\ FatbandsIdle

\* hpc_client lines 192-207: the Connect button is enabled whenever no modal
\* dialog is open; self.ssh_thread is rebound to the new thread
connect_with_2fa ==
    /\ Len(ssh.workers) < MaxConnects
    /\ ssh.dialogs = <<>>
    /\ ssh' = [ssh EXCEPT !.workers = Append(@, SSHThreadInit),
                          !.ssh_thread = Len(ssh.workers) + 1]
    /\ SshFrame

\* hpc_client lines 209-215: the queued otp_signal reaches the GUI thread's
\* event loop (also the nested loop of an open dialog) and the dialog opens
ask_otp_signal ==
    /\ ssh.events # <<>>
    /\ ssh' = [ssh EXCEPT !.events = Tail(@),
                          !.dialogs = Append(@, Head(ssh.events))]
    /\ SshFrame

\* hpc_client lines 216-220: the topmost dialog returns (text, ok)
DialogReturn ==
    /\ ssh.dialogs # <<>>
    /\ \E text \in Texts : \E ok \in BOOLEAN :
         LET d == ssh.dialogs[Len(ssh.dialogs)]
             code == IF ~ok THEN "" ELSE text
         IN ssh' = [ssh EXCEPT
                      !.dialogs = SubSeq(@, 1, Len(@) - 1),
                      !.workers[ssh.ssh_thread].otp_result = Otp(code),
                      !.given = @ \cup {[thread |-> d.thread, prompt |-> d.prompt,
                                         code |-> code]}]
    /\ SshFrame

Worker(t, w) ==
    /\ ssh' = [ssh EXCEPT !.workers[t] = w]
    /\ SshFrame

\* ssh_helpers lines 60-73 and 102-103: Transport, start_client (either may raise) and
\* the public-key step, whose failure is only logged
RunStart(t) ==
    /\ ssh.workers[t].pc = "start"
    /\ \E raised \in BOOLEAN :
         Worker(t, IF raised THEN Finished(ssh.workers[t], FALSE)
                   ELSE [ssh.workers[t] EXCEPT !.pc = "auth"])

\* line 92: auth_interactive calls handler with the server's prompts
RunPrompts(t) ==
    /\ ssh.workers[t].pc = "auth"
    /\ \E ps \in PromptLists(MaxPrompts - ssh.workers[t].sent) :
         Worker(t, [ssh.workers[t] EXCEPT !.pc = "handler", !.prompts = ps,
                                          !.answers = <<>>,
                                          !.sent = @ + Len(ps)])

\* lines 92-94: auth_interactive returns or raises; not authenticated raises
RunAuthenticated(t) ==
    /\ ssh.workers[t].pc = "auth"
    /\ \E ok \in BOOLEAN :
         Worker(t, IF ok THEN [ssh.workers[t] EXCEPT !.pc = "attach"]
                   ELSE Finished(ssh.workers[t], FALSE))

\* lines 79-81: a password prompt
HandlerPassword(t) ==
    /\ ssh.workers[t].pc = "handler"
    /\ ssh.workers[t].prompts # <<>>
    /\ Head(ssh.workers[t].prompts) = "Password"
    /\ Worker(t, [ssh.workers[t] EXCEPT !.answers = Append(@, "password"),
                                        !.prompts = Tail(@)])

\* line 84: self.otp_result = None
HandlerReset(t) ==
    /\ ssh.workers[t].pc = "handler"
    /\ ssh.workers[t].prompts # <<>>
    /\ Head(ssh.workers[t].prompts) = "otp"
    /\ Worker(t, [ssh.workers[t] EXCEPT !.otp_result = None, !.pc = "emit",
                                        !.asked = @ + 1])

\* line 85: self.otp_signal.emit(prompt, echo), queued to the GUI thread
HandlerEmit(t) ==
    /\ ssh.workers[t].pc = "emit"
    /\ ssh' = [ssh EXCEPT
                 !.workers[t].pc = "wait",
                 !.events = Append(@, [thread |-> t,
                                       prompt |-> ssh.workers[t].asked])]
    /\ SshFrame

\* lines 86-88: the wait loop ends
HandlerWaitOver(t) ==
    /\ ssh.workers[t].pc = "wait"
    /\ WaitOver(ssh.workers[t])
    /\ Worker(t, [ssh.workers[t] EXCEPT !.pc = "append"])

\* line 89: answers.append(self.otp_result)
HandlerAppend(t) ==
    /\ ssh.workers[t].pc = "append"
    /\ ssh.workers[t].otp_result # None
    /\ Worker(t, [ssh.workers[t] EXCEPT
                    !.answers = Append(@, ssh.workers[t].otp_result.code),
                    !.used = @ \cup {[prompt |-> ssh.workers[t].asked,
                                      code |-> ssh.workers[t].otp_result.code]},
                    !.prompts = Tail(@),
                    !.pc = "handler"])

\* line 90: return answers
HandlerReturn(t) ==
    /\ ssh.workers[t].pc = "handler"
    /\ ssh.workers[t].prompts = <<>>
    /\ Worker(t, [ssh.workers[t] EXCEPT !.pc = "auth"])

\* lines 97-103: open_sftp may raise; finished_signal either way
RunAttach(t) ==
    /\ ssh.workers[t].pc = "attach"
    /\ \E ok \in BOOLEAN : Worker(t, Finished(ssh.workers[t], ok))

SSHThreadStep(t) ==
    /\ t <= Len(ssh.workers)
    /\ \/ RunStart(t)
       \/ RunPrompts(t)
       \/ RunAuthenticated(t)
       \/ HandlerPassword(t)
       \/ HandlerReset(t)
       \/ HandlerEmit(t)
       \/ HandlerWaitOver(t)
       \/ HandlerAppend(t)
       \/ HandlerReturn(t)
       \/ RunAttach(t)

NextSsh ==
    \/ connect_with_2fa
    \/ ask_otp_signal
    \/ DialogReturn
    \/ \E t \in 1..MaxConnects : SSHThreadStep(t)

SpecSsh == InitSsh /\ [][NextSsh]_vars

\* the worker thread is scheduled and the GUI event loop delivers queued
\* signals; nothing makes the user answer a dialog or press Connect
SpecSshFair ==
    /\ SpecSsh
    /\ \A t \in 1..MaxConnects : WF_vars(SSHThreadStep(t))
    /\ WF_vars(ask_otp_signal)

\* ================================================================ claims
\* ------------------------------------------------- fatbands (SpecFat)
NB == Len(energies)

Occurrences(s, x) == Cardinality({p \in 1..Len(s) : s[p] = x})

\* number of times band index j is listed over all fatbands
RECURSIVE TimesListed(_, _)
TimesListed(fbs, j) ==
    IF fbs = <<>> THEN 0
    ELSE Occurrences(Head(fbs).bands, j) + TimesListed(Tail(fbs), j)

ListedBands(fbs) == UNION {{fbs[f].bands[p] : p \in 1..Len(fbs[f].bands)} : f \in 1..Len(fbs)}

\* the fatband (position) that lists band index j
FatbandOf(j) == CHOOSE f \in 1..Len(fatbands) : Occurrences(fatbands[f].bands, j) > 0

RangesIntersect(a, b) == a[1] <= b[2] /\ b[1] <= a[2]

\* C1: when identify_fatbands returns, the 'bands' lists of the fatbands
\* partition {0, ..., nb-1}: every band index is listed exactly once, in
\* exactly one fatband, and nothing else is listed.
C1_Partition ==
    fb_pc = "done" =>
        /\ ListedBands(fatbands) = 0..(NB - 1)
        /\ \A j \in 0..(NB - 1) : TimesListed(fatbands, j) = 1

\* a returned grouping of three bands into two fatbands, one of them merged
C1_Witness ==
    /\ fb_pc = "done"
    /\ NB = 3
    /\ Len(fatbands) = 2
    /\ \E f \in 1..2 : Len(fatbands[f].bands) = 2

\* C2: after every step of the greedy merge (and at return) every fatband's
\* E-min is the least per-band minimum of its members and its E-max the
\* greatest per-band maximum of its members.
C2_EnergyBounds ==
    fb_pc \in {"loop", "done"} =>
        \A f \in 1..Len(fatbands) :
            LET members == {fatbands[f].bands[p] + 1 : p \in 1..Len(fatbands[f].bands)}
            IN /\ members # {}
               /\ \E b \in members : min_max_energies[b][1] = fatbands[f].Emin
               /\ \A b \in members : min_max_energies[b][1] >= fatbands[f].Emin
               /\ \E b \in members : min_max_energies[b][2] = fatbands[f].Emax
               /\ \A b \in members : min_max_energies[b][2] <= fatbands[f].Emax

\* mid-merge, a fatband that grew at both ends when its second band joined
C2_Witness ==
    /\ fb_pc = "loop"
    /\ fb_i <= NB
    /\ \E f \in 1..Len(fatbands) :
          /\ Len(fatbands[f].bands) = 2
          /\ fatbands[f].Emin < min_max_energies[fatbands[f].bands[1] + 1][1]
          /\ fatbands[f].Emax > min_max_energies[fatbands[f].bands[1] + 1][2]

\* C3 as stated: for every input order, two bands whose closed ranges
\* intersect are in the same returned fatband.
C3_OverlapSameFatband ==
    fb_pc = "done" =>
        \A a, b \in 1..NB :
            RangesIntersect(min_max_energies[a], min_max_energies[b])
                => FatbandOf(a - 1) = FatbandOf(b - 1)

SortedByMin == \A a, b \in 1..Len(min_max_energies) :
                  a < b => min_max_energies[a][1] <= min_max_energies[b][1]

\* C3 amended: when the bands come in ascending order of their minimum
\* energy, two bands whose closed ranges intersect are in the same returned
\* fatband, and the ranges of two distinct returned fatbands never intersect.
C3_OverlapSameFatbandSorted ==
    (fb_pc = "done" /\ SortedByMin) =>
        /\ \A a, b \in 1..NB :
              RangesIntersect(min_max_energies[a], min_max_energies[b])
                  => FatbandOf(a - 1) = FatbandOf(b - 1)
        /\ \A f, g \in 1..Len(fatbands) :
              f # g => ~RangesIntersect(<<fatbands[f].Emin, fatbands[f].Emax>>,
                                        <<fatbands[g].Emin, fatbands[g].Emax>>)

\* sorted input: two bands that only touch were merged, and a third band
\* stayed apart
C3_Witness ==
    /\ fb_pc = "done"
    /\ SortedByMin
    /\ NB = 3
    /\ Len(fatbands) = 2
    /\ \E a, b \in 1..NB :
          /\ a # b
          /\ min_max_energies[a][2] = min_max_energies[b][1]
          /\ min_max_energies[a][1] < min_max_energies[b][1]
          /\ FatbandOf(a - 1) = FatbandOf(b - 1)

\* ------------------------------------------ window statistics (SpecWin)
ExactFn == "get_selected_weights_in_window_exact"

ApproxFn == "get_selected_weights_in_window_approx"

\* the weight the file gives orbital column o of ion i in band b at k-point k
FileWeight(b, k, i, o) == procar.kpoints[k].bands[b].ions[i].w[o]

NK == procar.header.kpoints

NIon == procar.header.ions

NOrb == Len(procar.header.orbitals)

PairsInWindow(ymin, ymax) ==
    {bk \in (1..NB) \X (1..NK) : ymin <= energies[bk[1]][bk[2]] /\ energies[bk[1]][bk[2]] <= ymax}

\* the sum the claims state for the selected weight in a window
SelectedInWindow(ymin, ymax, ions, orbs) ==
    SumFn([c \in {x \in PairsInWindow(ymin, ymax) \X (1..NIon) \X (1..NOrb) :
                      x[2] \in ions /\ procar.header.orbitals[x[3]] \in orbs} |->
              FileWeight(c[1][1], c[1][2], c[2], c[3])])

\* the sum the claims state for the total weight in a window
TotalInWindow(ymin, ymax) ==
    SumFn([c \in PairsInWindow(ymin, ymax) \X (1..NIon) \X (1..NOrb) |->
              FileWeight(c[1][1], c[1][2], c[2], c[3])])

\* C4: get_selected_weights_in_window_exact yields as selected weight the
\* sum over the (band, k-point) pairs with ymin <= energy <= ymax of the
\* weights of the selected ions and orbitals at that pair.
C4_ExactSelectedSum ==
    call.fn = ExactFn =>
        /\ call.status = "ok"
        /\ call.sel_weight_in_window =
              SelectedInWindow(call.ymin, call.ymax, call.ions, call.orbs)

\* C5: the total weight get_selected_weights_in_window_exact returns is the
\* sum over the pairs in the window of the weights of all ions and all
\* orbitals; in the scenario of the spec it returns selected 2 and total 2.
C5_ExactTotalSum ==
    (call.fn = ExactFn /\ call.status = "ok") =>
        /\ call.weight_in_window = TotalInWindow(call.ymin, call.ymax)
        /\ (/\ procar = ScenarioProcar
            /\ <<call.ymin, call.ymax>> = ScenarioWindow
            /\ call.ions = {1} /\ call.orbs = {"s"})
              => (call.sel_weight_in_window = 2 /\ call.weight_in_window = 2)

\* C6: when a narrower window [w1] inside the queried window yields a
\* selected weight in exact mode, the queried (wider) window yields one too
\* and it is at least as large.
C6_ExactMonotone ==
    call.fn = ExactFn =>
        \A w1 \in Windows :
            LET narrow == SelectedWeightsInWindowExact(energies, PerKpointArrays(procar),
                              orb_index, procar.header.orbitals, w1[1], w1[2],
                              call.ions, call.orbs)
            IN (call.ymin <= w1[1] /\ w1[2] <= call.ymax /\ narrow.status = "ok") =>
                  /\ call.status = "ok"
                  /\ call.sel_weight_in_window >= narrow.sel_weight_in_window

\* the selected weight of band b the claims scale: the band's weights of the
\* selected ions and orbitals summed over all k-points
BandSelected(b, ions, orbs) ==
    SumFn([c \in {x \in (1..NK) \X (1..NIon) \X (1..NOrb) :
                      x[2] \in ions /\ procar.header.orbitals[x[3]] \in orbs} |->
              FileWeight(b, c[1], c[2], c[3])])

BandMin(b) == SeqMin(energies[b])

BandMax(b) == SeqMax(energies[b])

BandMeetsWindow(b, ymin, ymax) == BandMin(b) <= ymax /\ ymin <= BandMax(b)

\* the share of band b the claims put inside the window
BandShare(b, ymin, ymax) ==
    IF BandMax(b) = BandMin(b)
    THEN IF ymin <= BandMin(b) /\ BandMin(b) <= ymax THEN <<1, 1>> ELSE <<0, 1>>
    ELSE Rat(Max2(0, Min2(BandMax(b), ymax) - Max2(BandMin(b), ymin)), BandMax(b) - BandMin(b))

RECURSIVE RSumSet(_, _, _, _, _)
RSumSet(S, ymin, ymax, ions, orbs) ==
    IF S = {} THEN <<0, 1>>
    ELSE LET b == CHOOSE x \in S : TRUE
         IN RAdd(RMul(<<BandSelected(b, ions, orbs), 1>>, BandShare(b, ymin, ymax)),
                 RSumSet(S \ {b}, ymin, ymax, ions, orbs))

\* C7: get_selected_weights_in_window_approx returns a pair whose selected
\* weight is the sum over the bands whose range meets the window of the
\* band's selected weight times overlapLength / (max - min).
C7_ApproxReturnsPair ==
    call.fn = ApproxFn =>
        /\ call.status = "ok"
        /\ call.type = "tuple"
        /\ call.sel_weight_in_window =
              RSumSet({b \in 1..NB : BandMeetsWindow(b, call.ymin, call.ymax)},
                      call.ymin, call.ymax, call.ions, call.orbs)

\* the overlap fraction the approximate mode computed for band b, <<0, 1>>
\* when the band is not among its bands in window
ApproxFracOf(b) ==
    LET ps == {p \in 1..Len(call.overlap_frac) :
                  SortedSeq({c - 1 : c \in BandsIntersecting(energies, call.ymin, call.ymax)})[p]
                      = b - 1}
    IN IF ps = {} THEN <<0, 1>> ELSE call.overlap_frac[CHOOSE p \in ps : TRUE]

\* C8: for a window equal to the full range [min, max] of a band, the
\* approximate mode gives that band the overlap fraction 1 and, the band
\* being the only one that meets the window, returns the band's full
\* selected weight.
C8_ApproxFullRange ==
    call.fn = ApproxFn =>
        \A b \in 1..NB :
            (call.ymin = BandMin(b) /\ call.ymax = BandMax(b)) =>
                /\ call.status = "ok"
                /\ ApproxFracOf(b) = <<1, 1>>
                /\ (\A c \in 1..NB : BandMeetsWindow(c, call.ymin, call.ymax) => c = b)
                      => /\ call.type = "tuple"
                         /\ call.sel_weight_in_window
                               = <<BandSelected(b, call.ions, call.orbs), 1>>

\* C9: for a band whose minimum and maximum energy are equal the
\* approximate mode computes the overlap fraction without a division: 1 when
\* the energy lies in [ymin, ymax] and 0 otherwise.
C9_FlatBandFraction ==
    call.fn = ApproxFn =>
        \A b \in 1..NB :
            BandMin(b) = BandMax(b) =>
                /\ call.status = "ok"
                /\ ApproxFracOf(b) =
                      (IF call.ymin <= BandMin(b) /\ BandMin(b) <= call.ymax
                       THEN <<1, 1>> ELSE <<0, 1>>)

\* C10: with an empty ion selection or an empty orbital selection
\* compute_selected_weights and compute_per_kpoint_selected_weights return
\* all zeros and the selected weight in any window (exact mode) is 0,
\* without an error.
C10_EmptySelection ==
    (/\ call.fn \in {"compute_selected_weights", "compute_per_kpoint_selected_weights", ExactFn}
     /\ (call.ions = {} \/ call.orbs = {})) =>
        /\ call.status = "ok"
        /\ call.fn = "compute_selected_weights" =>
              \A b \in 1..NB : call.selected_weights[b] = 0
        /\ call.fn = "compute_per_kpoint_selected_weights" =>
              \A b \in 1..NB, k \in 1..NK : call.selected_per_k[b][k] = 0
        /\ call.fn = ExactFn => call.sel_weight_in_window = 0

\* ------------------------------------------ BandData arrays (SpecLoad, SpecWin)
\* launch_procar_ui has built the BandData from the parsed dict
Built == parser.pc = "built"

\* the sum of weights[b][i][orb] over all ions and orbital labels
BandSum(b) == SumFn([i \in 1..Len(weights[b]) |-> SumFn(weights[b][i])])

\* C11 as stated: for every BandData built from a parsed PROCAR and every
\* band b, the sum of weights[b][i][o] over all ions and orbitals equals
\* band_weights[b].
C11_Conservation ==
    Built => \A b \in 1..Len(weights) : BandSum(b) = band_weights[b]

\* every "tot" line of the file ends with the sum of its ion lines' orbital
\* columns
TotalsAddUp ==
    \A k \in 1..Len(procar.kpoints) : \A j \in 1..Len(procar.kpoints[k].bands) :
        LET band == procar.kpoints[k].bands[j]
        IN band.total.total =
              SumFn([i \in 1..Len(band.ions) |-> SumFn(band.ions[i].w)])

\* C11: for every BandData built from a parsed PROCAR whose "tot" lines end
\* with the sum of their ions' orbital columns, and every band b, the sum of
\* weights[b][i][o] over all ions and orbitals equals band_weights[b].
C11_ConservationWhenTotalsAddUp ==
    (Built /\ TotalsAddUp) =>
        \A b \in 1..Len(weights) : BandSum(b) = band_weights[b]

C11_Witness ==
    /\ Built /\ TotalsAddUp
    /\ procar.header.kpoints = 2
    /\ band_weights[1] = 2
    /\ BandSum(1) = 2

\* C12: once the per-k-point arrays exist, for every band, ion and orbital
\* the sum of per_k[b][k][i][o] over the k-points equals weights[b][i][o].
C12_PerKpointConsistency ==
    per_kpoint_weights.filled =>
        \A b \in 1..Len(weights) : \A i \in 1..Len(weights[b]) :
            \A o \in 1..Len(procar.header.orbitals) :
                SumFn([k \in 1..procar.header.kpoints |->
                          per_kpoint_weights.per_k[b][k][i][o]])
                  = weights[b][i][procar.header.orbitals[o]]

C12_Witness ==
    /\ per_kpoint_weights.filled
    /\ procar.header.kpoints = 2
    /\ per_kpoint_weights.per_k[1][1][1][1] = 1
    /\ per_kpoint_weights.per_k[1][2][1][1] = 0
    /\ weights[1][1]["s"] = 1

\* C13: energies has one row per band and one entry per k-point,
\* energies[b][k] is the energy field of band b's record at k-point k, and
\* the Fermi energy is not subtracted from it.
C13_EnergiesAbsolute ==
    Built =>
        /\ Len(energies) = procar.header.bands
        /\ \A b \in 1..Len(energies) :
              /\ Len(energies[b]) = procar.header.kpoints
              /\ \A k \in 1..Len(energies[b]) :
                    energies[b][k] = procar.kpoints[k].bands[b].energy

C13_Witness ==
    /\ Built
    /\ fermi = 1
    /\ procar.header.bands = 2
    /\ energies[1][1] = 1
    /\ energies[2][1] = 0

\* ------------------------------------- the per-k-point cache (SpecWin, SpecConc)
\* the methods that go through compute_per_kpoint_weights
CacheUsers ==
    {"compute_per_kpoint_weights", "compute_per_kpoint_selected_weights",
     "get_selected_weights_in_window_exact"}

\* C14: with sequential calls, the first call that goes through
\* compute_per_kpoint_weights builds the arrays, and once they are cached
\* no call builds them again or replaces the cached tuple; the totals a
\* later compute_per_kpoint_selected_weights returns are the cached ones.
C14_Memoized ==
    [][ /\ (~per_kpoint_weights.filled /\ call'.fn \in CacheUsers)
            => (per_kpoint_weights'.filled /\ n_computed' = 1)
        /\ per_kpoint_weights.filled
            => /\ per_kpoint_weights' = per_kpoint_weights
               /\ n_computed' = n_computed
               /\ call'.fn = "compute_per_kpoint_selected_weights"
                     => call'.per_k_totals = per_kpoint_weights.per_k_totals ]_vars

C14_Witness ==
    /\ per_kpoint_weights.filled
    /\ n_computed = 1
    /\ call.fn = "compute_per_kpoint_weights"
    /\ ~call.computed

\* C15 as stated: when several callers run compute_per_kpoint_weights at
\* once on one BandData, the arrays are built at most once.
C15_SingleFlight == n_computed <= 1

\* C16: whatever the interleaving of the callers, a cache that is not None
\* holds the fully populated arrays, and so does every tuple a caller got.
C16_NeverPartial ==
    /\ per_kpoint_weights.filled => per_kpoint_weights = PerKpointArrays(procar)
    /\ \A t \in DOMAIN threads :
          threads[t].pc = "done" => threads[t].ret = PerKpointArrays(procar)

C16_Witness ==
    /\ threads # NoThreads
    /\ \E t \in DOMAIN threads : \E u \in DOMAIN threads :
          /\ threads[t].pc = "done"
          /\ threads[u].pc = "loop" /\ threads[u].k = 2
          /\ threads[u].local # PerKpointArrays(procar)
          /\ threads[t].ret.per_k_totals[1][2] = 1

\* -------------------------------------------------- frame of the methods (SpecWin)
\* C17: a call of identify_fatbands, fatband_info, compute_selected_weights,
\* compute_per_kpoint_selected_weights, get_bands_in_window or of a window
\* mode leaves the parsed dict, the Fermi energy, energies, weights,
\* band_weights and the orbital index as they are, whether it returns or
\* raises; the cache changes only from None to the full arrays.
C17_Frame ==
    [][ /\ procar' = procar /\ fermi' = fermi
        /\ energies' = energies /\ weights' = weights
        /\ band_weights' = band_weights /\ orb_index' = orb_index
        /\ per_kpoint_weights' # per_kpoint_weights
              => (~per_kpoint_weights.filled
                    /\ per_kpoint_weights' = PerKpointArrays(procar)) ]_vars

C17_Witness ==
    /\ call.fn = "fatband_info"
    /\ per_kpoint_weights.filled
    /\ band_weights[1] = 2
    /\ energies = ComputeEnergies(procar)
    /\ weights = ComputeWeights(procar)
    /\ band_weights = ComputeBandWeights(procar)

\* ------------------------------------------------------ the Parser (SpecLoad)
\* Parser.PROCAR is over
ProcarParsed == parser.pc \in {"fermi", "done", "warned", "built", "raised"}

\* Parser.FERMI is over
FermiParsed == parser.pc \in {"done", "warned", "built", "raised"}

\* printed or shown to the user
Printed(msg) == \E j \in 1..Len(parser.out) : parser.out[j] = msg

\* a count of the header is not an integer, or lines the counts call for
\* are not in the file
BadHeaderOrTruncated == parser.kind \in {"header", "truncated"}

\* C18 as stated: parsing a PROCAR with a non-integer count in the header or
\* with data truncated relative to the declared counts fails with a
\* ParseError that reaches the caller of the parser.
C18_ParseErrorPropagated ==
    (ProcarParsed /\ BadHeaderOrTruncated) => parser.propagated = "ParseError"

\* C18: parsing a PROCAR with a non-integer count in the header, or without
\* lines the declared counts call for, fails without an exception:
\* Parser.PROCAR prints the error and returns None, and launch_procar_ui
\* then warns and builds no BandData.
C18_FailsWithNone ==
    (ProcarParsed /\ BadHeaderOrTruncated) =>
        /\ parser.propagated = "none"
        /\ parser.procar = None
        /\ Printed("Error")
        /\ ~Built
        /\ procar = None
        /\ parser.pc = "warned" => Printed("Failed to parse PROCAR file")

C18_Witness ==
    /\ parser.pc = "warned"
    /\ parser.kind = "truncated"
    /\ parser.k_idx = 2
    /\ ~parser.local.none
    /\ Len(parser.local.dict.kpoints) = 1

\* the dict has every k-point, band, ion and weight entry its header declares
Complete(d) ==
    /\ Len(d.kpoints) = d.header.kpoints
    /\ \A k \in 1..Len(d.kpoints) :
          /\ Len(d.kpoints[k].bands) = d.header.bands
          /\ \A b \in 1..Len(d.kpoints[k].bands) :
                LET band == d.kpoints[k].bands[b]
                IN /\ Len(band.ions) = d.header.ions
                   /\ Len(band.total.w) = Len(d.header.orbitals)
                   /\ "total" \in DOMAIN band.total
                   /\ \A i \in 1..Len(band.ions) :
                         /\ Len(band.ions[i].w) = Len(d.header.orbitals)
                         /\ "total" \in DOMAIN band.ions[i]

\* C19 as stated: a dict Parser.PROCAR returns has nk k-points of nb bands
\* of nion ions, every ion and band-total mapping has one entry per orbital
\* and a total, and for a file that is not well-formed nothing is returned.
C19_CompleteOrNothing ==
    ProcarParsed =>
        /\ ~parser.procar.none => Complete(parser.procar.dict)
        /\ parser.kind # "well-formed" => parser.procar.none

\* C20: for a FERMI path that is missing or cannot be read, Parser.FERMI
\* returns 0, prints that no Fermi energy was found and raises nothing.
C20_FermiMissing ==
    (FermiParsed /\ parser.fermi_file.state \in {"missing", "unreadable"}) =>
        /\ parser.fermi = 0
        /\ Printed("FERMI ENERGY NOT FOUND")
        /\ parser.propagated = "none"
        /\ parser.pc # "raised"

C20_Witness ==
    /\ Built
    /\ parser.fermi_file.state = "missing"
    /\ parser.fermi = 0
    /\ fermi = 0
    /\ Printed("FERMI ENERGY NOT FOUND")

\* the FERMI file is there and its first line starts with a number
FermiStartsWithNumber ==
    /\ FermiParsed
    /\ parser.fermi_file.state = "ok"
    /\ Len(parser.fermi_file.lines) > 0
    /\ Len(parser.fermi_file.lines[1]) > 0
    /\ IsFloat(parser.fermi_file.lines[1][1])

\* C21 as stated: Parser.FERMI returns the first number of the file, whatever
\* follows it on the first line or on later lines.
C21_FermiFirstToken ==
    FermiStartsWithNumber => parser.fermi = parser.fermi_file.lines[1][1].v

\* C21: Parser.FERMI returns the number on the first line when that line
\* holds one token and nothing else, whatever the later lines hold; when
\* more tokens follow the number on the first line it prints that no Fermi
\* energy was found and returns 0.
C21_FermiFirstLine ==
    FermiStartsWithNumber =>
        IF Len(parser.fermi_file.lines[1]) = 1
        THEN /\ parser.fermi = parser.fermi_file.lines[1][1].v
             /\ ~Printed("FERMI ENERGY NOT FOUND")
        ELSE /\ parser.fermi = 0
             /\ Printed("FERMI ENERGY NOT FOUND")

C21_Witness ==
    /\ FermiStartsWithNumber
    /\ Len(parser.fermi_file.lines) = 2
    /\ parser.fermi_file.lines[2] = <<FloatTok(0)>>
    /\ parser.fermi = MaxFermi
    /\ Built /\ fermi = MaxFermi

\* ------------------------------------------------- selections (SpecWin)
\* s lists the members of S once each in ascending order
AscendingListOf(s, S) ==
    /\ {s[j] : j \in 1..Len(s)} = S
    /\ \A j \in 1..(Len(s) - 1) : s[j] < s[j + 1]

\* C22 as stated: get_bands_in_window(ymin, ymax) returns, in ascending
\* order, exactly the indices of the bands whose closed range [min, max]
\* meets the closed window, touching included.
C22_BandsInWindow ==
    call.fn = "get_bands_in_window" =>
        /\ call.status = "ok"
        /\ AscendingListOf(call.bands,
              {b - 1 : b \in {c \in 1..NB : BandMeetsWindow(c, call.ymin, call.ymax)}})

\* C24: compute_selected_weights(ions, orbs) returns one entry per band, the
\* sum of the file's weights of the band over the k-points and over the
\* pairs of a selected ion and a selected orbital; selected ions and labels
\* the file does not have add nothing.
C24_SelectedWeights ==
    call.fn = "compute_selected_weights" =>
        /\ call.status = "ok"
        /\ Len(call.selected_weights) = NB
        /\ \A b \in 1..NB :
              call.selected_weights[b] = BandSelected(b, call.ions, call.orbs)

C24_Witness ==
    /\ call.fn = "compute_selected_weights"
    /\ (NIon + 1) \in call.ions /\ 1 \in call.ions
    /\ NOrb = 1 /\ call.orbs = {"s", "p"}
    /\ NK = 2
    /\ call.selected_weights[1] = 2

\* the list is in descending order of the field key
Descending(s, key) == \A j \in 1..(Len(s) - 1) : s[j][key] >= s[j + 1][key]

\* the contributions (ion, orbital, weight) of band b (1-based)
Contributions(b) ==
    {[ion |-> i, orbital |-> procar.header.orbitals[o],
      weight |-> weights[b][i][procar.header.orbitals[o]]] :
        i \in 1..NIon, o \in 1..NOrb}

\* C25 as stated: fatband_info returns one summary per band of the fatband,
\* with the 1-based index and the band's own E-min and E-max; the summary
\* lists the min(top_n, nion*norb) largest contributions of the band in
\* descending order of weight, and the summaries come in descending order of
\* top_weight, the band's largest contribution.
C25_FatbandInfo ==
    call.fn = "fatband_info" =>
        /\ call.status = "ok"
        /\ Len(call.list) = Len(call.fatband.bands)
        /\ \A j \in 1..Len(call.fatband.bands) :
              Cardinality({x \in 1..Len(call.list) :
                              call.list[x].index = call.fatband.bands[j] + 1}) = 1
        /\ Descending(call.list, "top_weight")
        /\ \A x \in 1..Len(call.list) :
              LET info == call.list[x]
                  all  == Contributions(info.index)
                  top  == {info.topk[j] : j \in 1..Len(info.topk)}
              IN /\ info.Emin = BandMin(info.index)
                 /\ info.Emax = BandMax(info.index)
                 /\ Len(info.topk) = Min2(call.top_n, NIon * NOrb)
                 /\ Cardinality(top) = Len(info.topk)
                 /\ top \subseteq all
                 /\ Descending(info.topk, "weight")
                 /\ \A c \in all \ top : \A d \in top : c.weight <= d.weight
                 /\ info.top_weight = info.topk[1].weight

\* C27: for every selection and band, the sum over the k-points of the
\* array compute_per_kpoint_selected_weights returns equals the entry
\* compute_selected_weights returns for the same selection.
C27_CoarseFineAgree ==
    call.fn = "compute_per_kpoint_selected_weights" =>
        \A b \in 1..NB :
            SumFn([k \in 1..NK |-> call.selected_per_k[b][k]])
              = ComputeSelectedWeights(weights, call.ions, call.orbs)[b]

C27_Witness ==
    /\ call.fn = "compute_per_kpoint_selected_weights"
    /\ NK = 2 /\ NOrb = 2
    /\ call.ions = {1} /\ call.orbs = {"p"}
    /\ call.selected_per_k[1] = <<1, 1>>
    /\ weights[1][1]["s"] = 2

\* C28: with weights that are not negative, for every selection, band and
\* k-point the selected per-k-point weight is at most the per-k-point
\* total, the total is the sum of the per-k-point array over all ions and
\* orbitals, and the two are equal when every ion and orbital is selected.
C28_SelectedAtMostTotal ==
    call.fn = "compute_per_kpoint_selected_weights" =>
        \A b \in 1..NB : \A k \in 1..NK :
            /\ call.selected_per_k[b][k] <= call.per_k_totals[b][k]
            /\ call.per_k_totals[b][k] =
                  SumFn([i \in 1..NIon |-> SumFn(per_kpoint_weights.per_k[b][k][i])])
            /\ ((1..NIon) \subseteq call.ions
                  /\ {procar.header.orbitals[o] : o \in 1..NOrb} \subseteq call.orbs)
                => call.selected_per_k[b][k] = call.per_k_totals[b][k]

C28_Witness ==
    /\ call.fn = "compute_per_kpoint_selected_weights"
    /\ NIon = 2 /\ call.ions = {1, 2} /\ call.orbs = {"s", "p"}
    /\ call.per_k_totals[1][1] = 2
    /\ call.selected_per_k[1][1] = 2

\* ------------------------------------------- the merge rule (SpecFat)
\* the positions of the fatbands whose closed range meets the band's
Meeting(fbs, band) ==
    {f \in 1..Len(fbs) : RangesIntersect(<<fbs[f].Emin, fbs[f].Emax>>, band)}

\* C23: the bands are placed in index order; a band joins the earliest
\* fatband whose current closed range meets the band's closed range, that
\* fatband's range grows to the union and its list gets the band's index,
\* and no other fatband changes; when no fatband meets the band, a fatband
\* holding only that band is appended.
C23_FirstFit ==
    [][ (fb_pc = "loop" /\ fb_i <= Len(min_max_energies)) =>
          LET band == min_max_energies[fb_i]
              hits == Meeting(fatbands, band)
          IN /\ fb_i' = fb_i + 1
             /\ IF hits = {}
                THEN fatbands' = Append(fatbands,
                        [Emin |-> band[1], Emax |-> band[2], bands |-> <<fb_i - 1>>])
                ELSE LET f == CHOOSE x \in hits : \A y \in hits : x <= y
                     IN /\ Len(fatbands') = Len(fatbands)
                        /\ \A g \in 1..Len(fatbands) : g # f => fatbands'[g] = fatbands[g]
                        /\ fatbands'[f].bands = Append(fatbands[f].bands, fb_i - 1)
                        /\ fatbands'[f].Emin = Min2(fatbands[f].Emin, band[1])
                        /\ fatbands'[f].Emax = Max2(fatbands[f].Emax, band[2]) ]_vars

C23_Witness ==
    /\ fb_pc = "done"
    /\ NB = 3
    /\ min_max_energies = <<<<1, 1>>, <<3, 3>>, <<0, 3>>>>
    /\ fatbands = << [Emin |-> 0, Emax |-> 3, bands |-> <<0, 2>>],
                     [Emin |-> 3, Emax |-> 3, bands |-> <<1>>] >>

\* ------------------------------------------------- the side panel (SpecUI)
\* the bands whose Fermi-relative energy range lies inside the window
BandsInsideWindow ==
    {b \in 1..NB : /\ ui.stats.ymin <= BandMin(b) - fermi
                   /\ BandMax(b) - fermi <= ui.stats.ymax}

\* C26 as stated: update_plot uses one energy reference for the window test
\* and for the overlap fraction, for every Fermi energy: a band whose
\* Fermi-relative range lies inside the window is among the bands in window
\* with overlap fraction 1, so that its whole selected weight is in the
\* selected weight in window.
C26_SameEnergyReference ==
    ui.open =>
        /\ \A b \in BandsInsideWindow :
              \E p \in 1..Len(ui.stats.bands_in_window) :
                  /\ ui.stats.bands_in_window[p] = b - 1
                  /\ ui.stats.overlap_frac[p] = <<1, 1>>
        /\ (\A p \in 1..Len(ui.stats.bands_in_window) :
                (ui.stats.bands_in_window[p] + 1) \in BandsInsideWindow)
            => ui.stats.sel_weight_in_window =
                  <<SumFn([b \in BandsInsideWindow |-> ui.stats.sel_band_weights[b]]), 1>>

\* ------------------------------------------- DraggableHLine (SpecDrag)
\* a press that hit the line has been delivered and no release after it
DragInProgress(log) ==
    \E i \in 1..Len(log) :
        /\ log[i].kind = "press" /\ log[i].contains
        /\ \A j \in (i+1)..Len(log) : log[j].kind # "release"

\* the event a step delivered
Delivered == hline'.log[Len(hline'.log)]

\* the line moves only on a motion event inside its axes during a drag
MovesOnlyWhenDragged ==
    (hline'.y # hline.y) =>
        /\ Delivered.kind = "motion" /\ Delivered.inaxes
        /\ DragInProgress(hline.log)

\* the release that ends a drag invokes on_change_callback once
ReleaseOfDragCallsBack ==
    (Delivered.kind = "release" /\ DragInProgress(hline.log)) =>
        hline'.callbacks = hline.callbacks + 1

\* on_change_callback is invoked only by the release that ends a drag
CallbackOnlyOnReleaseOfDrag ==
    (hline'.callbacks # hline.callbacks) =>
        /\ Delivered.kind = "release"
        /\ DragInProgress(hline.log)

\* C29 as stated: over any sequence of press, motion and release events the
\* line's y-position changes only on motion events inside its axes between a
\* press that hit the line and the next release, and on_change_callback is
\* invoked exactly once per completed drag, on its release, and never for a
\* motion event or a release with no drag in progress.
C29_DragProtocol ==
    [][(hline'.log # hline.log) =>
          /\ MovesOnlyWhenDragged
          /\ ReleaseOfDragCallsBack
          /\ CallbackOnlyOnReleaseOfDrag]_vars

\* what the code does keep: the first two parts, and no callback on motion
\* or press
C29_Aux ==
    [][(hline'.log # hline.log) =>
          /\ MovesOnlyWhenDragged
          /\ ReleaseOfDragCallsBack
          /\ (hline'.callbacks # hline.callbacks => Delivered.kind = "release")]_vars

\* ------------------------------------- SSHThread 2FA handshake (SpecSsh)
Started(t) == t <= Len(ssh.workers)

\* where worker t is in run, "none" before its thread is created
Pc(t) == IF Started(t) THEN ssh.workers[t].pc ELSE "none"

\* the dialog of worker t's current OTP prompt has returned
Answered(t) ==
    /\ Started(t)
    /\ \E g \in ssh.given : g.thread = t /\ g.prompt = ssh.workers[t].asked

\* worker t has emitted otp_signal and the dialog has not returned yet
AwaitingDialog(t) ==
    Pc(t) = "wait" /\ ~Answered(t)

\* until the dialog of its prompt returns the worker sees otp_result None,
\* and every OTP answer it appended is the one given for that prompt
AnswersAreThoseGiven ==
    \A t \in 1..Len(ssh.workers) :
        /\ AwaitingDialog(t) => ssh.workers[t].otp_result = None
        /\ \A u \in ssh.workers[t].used :
              [thread |-> t, prompt |-> u.prompt, code |-> u.code] \in ssh.given

\* finished_signal is emitted at the end of run and only there
FinishedAtMostOnce ==
    \A t \in 1..Len(ssh.workers) :
        /\ Len(ssh.workers[t].emitted) <= 1
        /\ (ssh.workers[t].pc = "done") = (Len(ssh.workers[t].emitted) = 1)

\* once the dialog has returned the wait loop ends
WaitEnds(t) ==
    (Pc(t) = "wait" /\ Answered(t)) ~> (Pc(t) # "wait")

\* a started thread ends, unless a dialog of it is never answered
RunEnds(t) ==
    \/ <>[]AwaitingDialog(t)
    \/ []<>(Pc(t) \in {"none", "done"})

\* C30 as stated: for every OTP prompt the worker resets otp_result to None,
\* emits otp_signal and waits; once the GUI thread's dialog returns (a code,
\* or "" when the user cancels) the wait loop ends, the worker uses exactly
\* the answer given for that prompt, and the thread eventually emits
\* finished_signal exactly once.
C30_Handshake ==
    /\ [](AnswersAreThoseGiven /\ FinishedAtMostOnce)
    /\ \A t \in 1..MaxConnects : WaitEnds(t) /\ RunEnds(t)

====
